---- MODULE Spec2Model ----
(***************************************************************************)
(* A model of perfinspector: profile grouping, trend analysis, the rule    *)
(* engine, the problem locator (classifier, extractor, path analyzer,      *)
(* command generator) and the heap insights.                               *)
(*                                                                         *)
(* Go strings are sequences of one-character strings, so that prefix and   *)
(* substring tests, lower-casing and concatenation are computed as the     *)
(* code computes them.  A multi-byte character is one element: byte-wise   *)
(* and character-wise substring search agree on valid UTF-8.               *)
(***************************************************************************)
EXTENDS Integers, Sequences, FiniteSets, TLC

VARIABLES
  pc,                  \* position of the run that is being modelled
  moduleName,          \* Classifier.moduleName
  thirdPartyPrefixes,  \* Classifier.thirdPartyPrefixes
  packageName,         \* argument of Classify
  category,            \* value returned by Classify
  metrics,             \* argument of AnalyzeHeapInsights
  insights,            \* value returned by AnalyzeHeapInsights
  profile,             \* argument of detectProfileType
  profileType,         \* value returned by detectProfileType
  paths,               \* argument of GroupProfiles
  fs,                  \* the files behind the paths
  groups,              \* the profile groups (returned by GroupProfiles)
  cmdPaths,            \* profile paths handed to the command generator
  cmdType,             \* profile type handed to the command generator
  cmdHotPaths,         \* hot paths handed to the command generator
  cmdEntry,            \* the entry point of the command generator that ran
  commands,            \* the commands it returned
  analyzer,            \* the PathAnalyzer: its classifier and configuration
  profiles,            \* the profiles handed to the analyzer
  hotPathType,         \* the profile type handed to the analyzer
  hotPaths,            \* the hot paths it returned
  extractSamples,      \* the samples handed to the extractor, one after another
  extractArgs,         \* valueIndex and totalValue handed to ExtractCallChain
  callChains,          \* the call chains ExtractCallChain returned for them
  aggregatedChains,    \* the chains AggregateCallChains returned
  engine,              \* the rule engine: its rules and cross-analysis rules
  evalGroups,          \* the groups handed to Evaluate
  evalTrends,          \* the trends map handed to Evaluate
  collected,           \* the findings Evaluate collected before deduplication
  findings,            \* the findings Evaluate returned
  contexts,            \* the problem contexts the driver made of the findings
  rulesFile,           \* the rules file handed to NewEngine
  loadResult,          \* the engine and the error NewEngine returned
  trendValues,         \* the series handed to LinearRegression
  trendResult          \* the slope and R2 LinearRegression returned

classifierVars == <<moduleName, thirdPartyPrefixes, packageName, category>>
trendVars      == <<trendValues, trendResult>>

insightVars    == <<metrics, insights, trendVars>>

detectVars     == <<profile, profileType>>

groupingVars   == <<paths, fs, groups>>

commandVars    == <<cmdPaths, cmdType, cmdHotPaths, cmdEntry, commands>>

chainVars      == <<extractSamples, extractArgs, callChains, aggregatedChains>>

locatorVars    == <<analyzer, profiles, hotPathType, hotPaths, chainVars>>

loadVars       == <<rulesFile, loadResult>>

engineVars     == <<engine, evalGroups, evalTrends, collected, findings, contexts,
                     loadVars>>

vars == <<pc, classifierVars, insightVars, detectVars, groupingVars, commandVars,
          locatorVars, engineVars>>

Nil == "nil"

(***************************************************************************)
(* Go's strings package                                                    *)
(***************************************************************************)
HasPrefix(s, prefix) ==
  Len(s) >= Len(prefix) /\ SubSeq(s, 1, Len(prefix)) = prefix

StringsContains(s, substr) ==
  \E i \in 0..(Len(s) - Len(substr)) : SubSeq(s, i + 1, i + Len(substr)) = substr

\* strings.Index: the smallest index at which substr occurs, -1 if none
StringsIndex(s, substr) ==
  IF StringsContains(s, substr)
  THEN CHOOSE i \in 0..(Len(s) - Len(substr)) :
         /\ SubSeq(s, i + 1, i + Len(substr)) = substr
         /\ \A j \in 0..(i - 1) : SubSeq(s, j + 1, j + Len(substr)) # substr
  ELSE -1

\* strings.LastIndex
StringsLastIndex(s, substr) ==
  IF StringsContains(s, substr)
  THEN CHOOSE i \in 0..(Len(s) - Len(substr)) :
         /\ SubSeq(s, i + 1, i + Len(substr)) = substr
         /\ \A j \in (i + 1)..(Len(s) - Len(substr)) :
              SubSeq(s, j + 1, j + Len(substr)) # substr
  ELSE -1

(***************************************************************************)
(* Classifier                                                              *)
(***************************************************************************)
CategoryRuntime    == "runtime"
CategoryStdlib     == "stdlib"
CategoryThirdParty == "third_party"
CategoryBusiness   == "business"
CategoryUnknown    == "unknown"

goStdlibPackages ==
  { <<"a","r","c","h","i","v","e">>, <<"a","r","c","h","i","v","e","/","t","a","r">>,
    <<"a","r","c","h","i","v","e","/","z","i","p">>, <<"b","u","f","i","o">>,
    <<"b","u","i","l","t","i","n">>, <<"b","y","t","e","s">>, <<"c","o","m","p","r","e","s","s">>,
    <<"c","o","m","p","r","e","s","s","/","b","z","i","p","2">>,
    <<"c","o","m","p","r","e","s","s","/","f","l","a","t","e">>,
    <<"c","o","m","p","r","e","s","s","/","g","z","i","p">>,
    <<"c","o","m","p","r","e","s","s","/","l","z","w">>,
    <<"c","o","m","p","r","e","s","s","/","z","l","i","b">>, <<"c","o","n","t","a","i","n","e","r">>,
    <<"c","o","n","t","a","i","n","e","r","/","h","e","a","p">>,
    <<"c","o","n","t","a","i","n","e","r","/","l","i","s","t">>,
    <<"c","o","n","t","a","i","n","e","r","/","r","i","n","g">>, <<"c","o","n","t","e","x","t">>,
    <<"c","r","y","p","t","o">>, <<"c","r","y","p","t","o","/","a","e","s">>,
    <<"c","r","y","p","t","o","/","c","i","p","h","e","r">>,
    <<"c","r","y","p","t","o","/","d","e","s">>, <<"c","r","y","p","t","o","/","d","s","a">>,
    <<"c","r","y","p","t","o","/","e","c","d","h">>,
    <<"c","r","y","p","t","o","/","e","c","d","s","a">>,
    <<"c","r","y","p","t","o","/","e","d","2","5","5","1","9">>,
    <<"c","r","y","p","t","o","/","e","l","l","i","p","t","i","c">>,
    <<"c","r","y","p","t","o","/","h","m","a","c">>, <<"c","r","y","p","t","o","/","m","d","5">>,
    <<"c","r","y","p","t","o","/","r","a","n","d">>, <<"c","r","y","p","t","o","/","r","c","4">>,
    <<"c","r","y","p","t","o","/","r","s","a">>, <<"c","r","y","p","t","o","/","s","h","a","1">>,
    <<"c","r","y","p","t","o","/","s","h","a","2","5","6">>,
    <<"c","r","y","p","t","o","/","s","h","a","5","1","2">>,
    <<"c","r","y","p","t","o","/","s","u","b","t","l","e">>,
    <<"c","r","y","p","t","o","/","t","l","s">>, <<"c","r","y","p","t","o","/","x","5","0","9">>,
    <<"c","r","y","p","t","o","/","x","5","0","9","/","p","k","i","x">>,
    <<"d","a","t","a","b","a","s","e">>, <<"d","a","t","a","b","a","s","e","/","s","q","l">>,
    <<"d","a","t","a","b","a","s","e","/","s","q","l","/","d","r","i","v","e","r">>,
    <<"d","e","b","u","g">>, <<"d","e","b","u","g","/","b","u","i","l","d","i","n","f","o">>,
    <<"d","e","b","u","g","/","d","w","a","r","f">>, <<"d","e","b","u","g","/","e","l","f">>,
    <<"d","e","b","u","g","/","g","o","s","y","m">>, <<"d","e","b","u","g","/","m","a","c","h","o">>,
    <<"d","e","b","u","g","/","p","e">>, <<"d","e","b","u","g","/","p","l","a","n","9","o","b","j">>,
    <<"e","m","b","e","d">>, <<"e","n","c","o","d","i","n","g">>,
    <<"e","n","c","o","d","i","n","g","/","a","s","c","i","i","8","5">>,
    <<"e","n","c","o","d","i","n","g","/","a","s","n","1">>,
    <<"e","n","c","o","d","i","n","g","/","b","a","s","e","3","2">>,
    <<"e","n","c","o","d","i","n","g","/","b","a","s","e","6","4">>,
    <<"e","n","c","o","d","i","n","g","/","b","i","n","a","r","y">>,
    <<"e","n","c","o","d","i","n","g","/","c","s","v">>,
    <<"e","n","c","o","d","i","n","g","/","g","o","b">>,
    <<"e","n","c","o","d","i","n","g","/","h","e","x">>,
    <<"e","n","c","o","d","i","n","g","/","j","s","o","n">>,
    <<"e","n","c","o","d","i","n","g","/","p","e","m">>,
    <<"e","n","c","o","d","i","n","g","/","x","m","l">>, <<"e","r","r","o","r","s">>,
    <<"e","x","p","v","a","r">>, <<"f","l","a","g">>, <<"f","m","t">>, <<"g","o">>,
    <<"g","o","/","a","s","t">>, <<"g","o","/","b","u","i","l","d">>,
    <<"g","o","/","b","u","i","l","d","/","c","o","n","s","t","r","a","i","n","t">>,
    <<"g","o","/","c","o","n","s","t","a","n","t">>, <<"g","o","/","d","o","c">>,
    <<"g","o","/","d","o","c","/","c","o","m","m","e","n","t">>,
    <<"g","o","/","f","o","r","m","a","t">>, <<"g","o","/","i","m","p","o","r","t","e","r">>,
    <<"g","o","/","p","a","r","s","e","r">>, <<"g","o","/","p","r","i","n","t","e","r">>,
    <<"g","o","/","s","c","a","n","n","e","r">>, <<"g","o","/","t","o","k","e","n">>,
    <<"g","o","/","t","y","p","e","s">>, <<"h","a","s","h">>,
    <<"h","a","s","h","/","a","d","l","e","r","3","2">>, <<"h","a","s","h","/","c","r","c","3","2">>,
    <<"h","a","s","h","/","c","r","c","6","4">>, <<"h","a","s","h","/","f","n","v">>,
    <<"h","a","s","h","/","m","a","p","h","a","s","h">>, <<"h","t","m","l">>,
    <<"h","t","m","l","/","t","e","m","p","l","a","t","e">>, <<"i","m","a","g","e">>,
    <<"i","m","a","g","e","/","c","o","l","o","r">>,
    <<"i","m","a","g","e","/","c","o","l","o","r","/","p","a","l","e","t","t","e">>,
    <<"i","m","a","g","e","/","d","r","a","w">>, <<"i","m","a","g","e","/","g","i","f">>,
    <<"i","m","a","g","e","/","j","p","e","g">>, <<"i","m","a","g","e","/","p","n","g">>,
    <<"i","n","d","e","x">>, <<"i","n","d","e","x","/","s","u","f","f","i","x","a","r","r","a","y">>,
    <<"i","o">>, <<"i","o","/","f","s">>, <<"i","o","/","i","o","u","t","i","l">>, <<"l","o","g">>,
    <<"l","o","g","/","s","l","o","g">>, <<"l","o","g","/","s","y","s","l","o","g">>,
    <<"m","a","p","s">>, <<"m","a","t","h">>, <<"m","a","t","h","/","b","i","g">>,
    <<"m","a","t","h","/","b","i","t","s">>, <<"m","a","t","h","/","c","m","p","l","x">>,
    <<"m","a","t","h","/","r","a","n","d">>, <<"m","i","m","e">>,
    <<"m","i","m","e","/","m","u","l","t","i","p","a","r","t">>,
    <<"m","i","m","e","/","q","u","o","t","e","d","p","r","i","n","t","a","b","l","e">>,
    <<"n","e","t">>, <<"n","e","t","/","h","t","t","p">>,
    <<"n","e","t","/","h","t","t","p","/","c","g","i">>,
    <<"n","e","t","/","h","t","t","p","/","c","o","o","k","i","e","j","a","r">>,
    <<"n","e","t","/","h","t","t","p","/","f","c","g","i">>,
    <<"n","e","t","/","h","t","t","p","/","h","t","t","p","t","e","s","t">>,
    <<"n","e","t","/","h","t","t","p","/","h","t","t","p","t","r","a","c","e">>,
    <<"n","e","t","/","h","t","t","p","/","h","t","t","p","u","t","i","l">>,
    <<"n","e","t","/","h","t","t","p","/","p","p","r","o","f">>, <<"n","e","t","/","m","a","i","l">>,
    <<"n","e","t","/","n","e","t","i","p">>, <<"n","e","t","/","r","p","c">>,
    <<"n","e","t","/","r","p","c","/","j","s","o","n","r","p","c">>,
    <<"n","e","t","/","s","m","t","p">>, <<"n","e","t","/","t","e","x","t","p","r","o","t","o">>,
    <<"n","e","t","/","u","r","l">>, <<"o","s">>, <<"o","s","/","e","x","e","c">>,
    <<"o","s","/","s","i","g","n","a","l">>, <<"o","s","/","u","s","e","r">>, <<"p","a","t","h">>,
    <<"p","a","t","h","/","f","i","l","e","p","a","t","h">>, <<"p","l","u","g","i","n">>,
    <<"r","e","f","l","e","c","t">>, <<"r","e","g","e","x","p">>,
    <<"r","e","g","e","x","p","/","s","y","n","t","a","x">>, <<"s","l","i","c","e","s">>,
    <<"s","o","r","t">>, <<"s","t","r","c","o","n","v">>, <<"s","t","r","i","n","g","s">>,
    <<"s","y","n","c">>, <<"s","y","n","c","/","a","t","o","m","i","c">>,
    <<"s","y","s","c","a","l","l">>, <<"t","e","s","t","i","n","g">>,
    <<"t","e","s","t","i","n","g","/","f","s","t","e","s","t">>,
    <<"t","e","s","t","i","n","g","/","i","o","t","e","s","t">>,
    <<"t","e","s","t","i","n","g","/","q","u","i","c","k">>, <<"t","e","x","t">>,
    <<"t","e","x","t","/","s","c","a","n","n","e","r">>,
    <<"t","e","x","t","/","t","a","b","w","r","i","t","e","r">>,
    <<"t","e","x","t","/","t","e","m","p","l","a","t","e">>,
    <<"t","e","x","t","/","t","e","m","p","l","a","t","e","/","p","a","r","s","e">>,
    <<"t","i","m","e">>, <<"t","i","m","e","/","t","z","d","a","t","a">>,
    <<"u","n","i","c","o","d","e">>, <<"u","n","i","c","o","d","e","/","u","t","f","1","6">>,
    <<"u","n","i","c","o","d","e","/","u","t","f","8">>, <<"u","n","s","a","f","e">>,
    <<"i","n","t","e","r","n","a","l">> }

\* the fixed hosting prefixes of isThirdPartyPackage, in source order
thirdPartyDomains ==
  << <<"g","i","t","h","u","b",".","c","o","m","/">>,
     <<"g","i","t","l","a","b",".","c","o","m","/">>,
     <<"b","i","t","b","u","c","k","e","t",".","o","r","g","/">>,
     <<"g","o","p","k","g",".","i","n","/">>,
     <<"g","o",".","u","b","e","r",".","o","r","g","/">>,
     <<"g","o","o","g","l","e",".","g","o","l","a","n","g",".","o","r","g","/">>,
     <<"c","l","o","u","d",".","g","o","o","g","l","e",".","c","o","m","/">>,
     <<"k","8","s",".","i","o","/">>,
     <<"s","i","g","s",".","k","8","s",".","i","o","/">> >>

\* A classifier c is [moduleName, thirdPartyPrefixes]; the stdlib set is the
\* embedded list for every classifier.
NewClassifier(mod, prefixes) ==
  [moduleName |-> mod, thirdPartyPrefixes |-> prefixes]

isRuntimePackage(c, pkg) ==
  pkg = <<"r","u","n","t","i","m","e">> \/ HasPrefix(pkg, <<"r","u","n","t","i","m","e","/">>)

isStdlibPackage(c, pkg) ==
  LET idx      == StringsIndex(pkg, <<"/">>)
      topLevel == IF idx > 0 THEN SubSeq(pkg, 1, idx) ELSE pkg
  IN  \/ pkg \in goStdlibPackages
      \/ (topLevel \in goStdlibPackages /\ ~StringsContains(topLevel, <<".">>))
      \/ HasPrefix(pkg, <<"g","o","l","a","n","g",".","o","r","g","/","x","/">>)

isBusinessPackage(c, pkg) ==
  IF pkg = <<"m","a","i","n">> \/ HasPrefix(pkg, <<"m","a","i","n",".">>)
  THEN TRUE
  ELSE IF /\ ~StringsContains(pkg, <<"/">>)
          /\ ~isRuntimePackage(c, pkg)
          /\ ~isStdlibPackage(c, pkg)
  THEN TRUE
  ELSE IF c.moduleName # <<>>
  THEN pkg = c.moduleName \/ HasPrefix(pkg, c.moduleName \o <<"/">>)
  ELSE FALSE

\* The first hosting prefix that matches decides: a package that begins with
\* the module name (no separator is required here) is excluded.
isThirdPartyPackage(c, pkg) ==
  IF \E i \in 1..Len(c.thirdPartyPrefixes) : HasPrefix(pkg, c.thirdPartyPrefixes[i])
  THEN TRUE
  ELSE IF \E i \in 1..Len(thirdPartyDomains) : HasPrefix(pkg, thirdPartyDomains[i])
  THEN ~(c.moduleName # <<>> /\ HasPrefix(pkg, c.moduleName))
  ELSE FALSE

\* Classify with the third-party check ahead of the business check
Classify_ThirdPartyFirst(c, pkg) ==
  IF pkg = <<>> THEN CategoryUnknown
  ELSE IF isRuntimePackage(c, pkg) THEN CategoryRuntime
  ELSE IF isStdlibPackage(c, pkg) THEN CategoryStdlib
  ELSE IF isThirdPartyPackage(c, pkg) THEN CategoryThirdParty
  ELSE IF isBusinessPackage(c, pkg) THEN CategoryBusiness
  ELSE CategoryUnknown

Classify(c, pkg) ==
  IF pkg = <<>> THEN CategoryUnknown
  ELSE IF isRuntimePackage(c, pkg) THEN CategoryRuntime
  ELSE IF isStdlibPackage(c, pkg) THEN CategoryStdlib
  ELSE IF isBusinessPackage(c, pkg) THEN CategoryBusiness
  ELSE IF isThirdPartyPackage(c, pkg) THEN CategoryThirdParty
  ELSE CategoryUnknown

\* inputs of the classifier runs
ModuleNames ==
  { <<>>,
    <<"g","i","t","h","u","b",".","c","o","m","/","u","s","e","r","/","a","p","p">>,
    <<"m","y","a","p","p">>,
    <<"r","u","n","t","i","m","e">>,
    <<"n","e","t">>,
    <<"g","o","p","k","g",".","i","n">> }

PackageNames ==
  { <<>>,
    <<"r","u","n","t","i","m","e">>,
    <<"r","u","n","t","i","m","e","/","d","e","b","u","g">>,
    <<"f","m","t">>,
    <<"n","e","t","/","h","t","t","p">>,
    <<"n","e","t","/","f","o","o">>,
    <<"g","o","l","a","n","g",".","o","r","g","/","x","/","n","e","t">>,
    <<"m","a","i","n">>,
    <<"m","a","i","n",".","i","n","i","t">>,
    <<"m","y","p","k","g">>,
    <<"m","y","a","p","p">>,
    <<"m","y","a","p","p","/","i","n","t","e","r","n","a","l">>,
    <<"m","y","a","p","p","l","i","c","a","t","i","o","n","/","x">>,
    <<"g","i","t","h","u","b",".","c","o","m","/","u","s","e","r","/","a","p","p">>,
    <<"g","i","t","h","u","b",".","c","o","m","/","u","s","e","r","/","a","p","p","/","i","n","t","e","r","n","a","l">>,
    <<"g","i","t","h","u","b",".","c","o","m","/","u","s","e","r","/","a","p","p","2">>,
    <<"g","i","t","h","u","b",".","c","o","m","/","u","s","e","r","/","a","p","p","2","/","p","k","g">>,
    <<"g","i","t","h","u","b",".","c","o","m","/","o","t","h","e","r","/","l","i","b">>,
    <<"g","o","p","k","g",".","i","n","/","y","a","m","l",".","v","3">>,
    <<"e","x","a","m","p","l","e",".","c","o","m","/","l","i","b">>,
    <<"k","8","s",".","i","o","/","c","l","i","e","n","t">>,
    <<"u","n","k","n","o","w","n",".","o","r","g","/","x">> }

PrefixLists ==
  { <<>>,
    << <<"e","x","a","m","p","l","e",".","c","o","m","/">>,
       <<"g","o","l","a","n","g",".","o","r","g","/">> >>,
    <<<<"g","i","t","h","u","b",".","c","o","m","/","u","s","e","r","/","a","p","p","/">>, <<"m","y","a","p","p">>>> }

(***************************************************************************)
(* Heap insights (AnalyzeHeapInsights).  AllocSpace and InuseSpace are     *)
(* carried in whole MiB: the code compares their ratio with 50 and 80, and *)
(* the sizes with 1 GiB and 10 GiB, which the unit does not change.  An    *)
(* insight is [Level, Title]; the formatted description is left out.       *)
(***************************************************************************)
TitleGCTooLow   == "GC reclaim rate too low"
TitleGCLow      == "GC reclaim rate low"
TitleInuseHigh  == "in-use memory high"
TitleAllocHigh  == "frequent allocation"
TitleTopInuse   == "main in-use function"

isStdLibNames ==
  << <<"e","n","c","o","d","i","n","g","/","j","s","o","n">>,
     <<"e","n","c","o","d","i","n","g","/","x","m","l">>,
     <<"e","n","c","o","d","i","n","g","/">>,
     <<"d","a","t","a","b","a","s","e","/","s","q","l">>,
     <<"n","e","t","/","h","t","t","p">>,
     <<"n","e","t","/">>,
     <<"i","o","/">>,
     <<"b","u","f","i","o">>,
     <<"b","y","t","e","s">>,
     <<"s","t","r","i","n","g","s">>,
     <<"f","m","t">>,
     <<"l","o","g">>,
     <<"s","y","n","c">>,
     <<"t","i","m","e">>,
     <<"c","r","y","p","t","o","/">>,
     <<"h","a","s","h","/">> >>

isStdLibVendors ==
  << <<"g","i","t","h","u","b",".","c","o","m","/">>,
     <<"g","o","o","g","l","e",".","g","o","l","a","n","g",".","o","r","g","/">>,
     <<"g","o",".","u","b","e","r",".","o","r","g","/">>,
     <<"g","o","p","k","g",".","i","n","/">> >>

isStdLib(funcName) ==
  \/ \E i \in 1..Len(isStdLibNames) : StringsContains(funcName, isStdLibNames[i])
  \/ \E i \in 1..Len(isStdLibVendors) : StringsContains(funcName, isStdLibVendors[i])

\* GCReclaimInsights with the warning threshold taken inclusively (gcRate <= 80)
GCReclaimInsights_InclusiveWarning(m) ==
  IF m.AllocSpace > 0
  THEN IF (m.AllocSpace - m.InuseSpace) * 100 < 50 * m.AllocSpace
       THEN << [Level |-> "critical", Title |-> TitleGCTooLow] >>
       ELSE IF (m.AllocSpace - m.InuseSpace) * 100 <= 80 * m.AllocSpace
       THEN << [Level |-> "warning", Title |-> TitleGCLow] >>
       ELSE << >>
  ELSE << >>

\* 1. gcRate = (AllocSpace - InuseSpace) / AllocSpace * 100, compared exactly
GCReclaimInsights(m) ==
  IF m.AllocSpace > 0
  THEN IF (m.AllocSpace - m.InuseSpace) * 100 < 50 * m.AllocSpace
       THEN << [Level |-> "critical", Title |-> TitleGCTooLow] >>
       ELSE IF (m.AllocSpace - m.InuseSpace) * 100 < 80 * m.AllocSpace
       THEN << [Level |-> "warning", Title |-> TitleGCLow] >>
       ELSE << >>
  ELSE << >>

\* 2. inuseMB > 1024
InuseInsights(m) ==
  IF m.InuseSpace > 1024
  THEN << [Level |-> "warning", Title |-> TitleInuseHigh] >>
  ELSE << >>

\* 3. allocGB > 10 with a ranked top allocator
AllocInsights(m) ==
  IF Len(m.TopAllocFunctions) > 0 /\ m.AllocSpace > 10 * 1024
  THEN << [Level |-> "warning", Title |-> TitleAllocHigh] >>
  ELSE << >>

\* 4. the top in-use function, when it is business code above 10 %
TopFunctionInsights(m) ==
  IF Len(m.TopFunctions) > 0
  THEN LET topFunc == m.TopFunctions[1]
       IN  IF /\ ~StringsContains(topFunc.Name, <<"r","u","n","t","i","m","e",".">>)
              /\ ~StringsContains(topFunc.Name, <<"r","u","n","t","i","m","e","/">>)
              /\ ~isStdLib(topFunc.Name)
              /\ topFunc.FlatPct > 10
           THEN << [Level |-> "info", Title |-> TitleTopInuse] >>
           ELSE << >>
  ELSE << >>

\* (the metrics are never nil in the runs modelled here)
AnalyzeHeapInsights(m) ==
  GCReclaimInsights(m) \o InuseInsights(m) \o AllocInsights(m)
    \o TopFunctionInsights(m)

\* inputs of the insight runs
SizesMB == {0, 1, 2, 5, 6, 8, 10, 2048, 11000}

FunctionStats ==
  { [Name |-> <<"m","a","i","n",".","h","a","n","d","l","e","r">>, FlatPct |-> 50],
    [Name |-> <<"m","a","i","n",".","h","a","n","d","l","e","r">>, FlatPct |-> 10],
    [Name |-> <<"e","n","c","o","d","i","n","g","/","j","s","o","n",".","M","a","r","s","h","a","l">>, FlatPct |-> 50],
    [Name |-> <<"r","u","n","t","i","m","e",".","m","a","l","l","o","c","g","c">>, FlatPct |-> 50],
    [Name |-> <<"g","i","t","h","u","b",".","c","o","m","/","x","/","y",".","F">>, FlatPct |-> 50] }

FunctionStatLists == { << >> } \cup { << f >> : f \in FunctionStats }

HeapMetrics ==
  [ AllocSpace : SizesMB, InuseSpace : SizesMB,
    TopAllocFunctions : { << >>, << [Name |-> <<"m","a","i","n",".","a","l","l","o","c">>, FlatPct |-> 30] >> },
    TopFunctions : FunctionStatLists ]

(***************************************************************************)
(* Lower-casing (strings.ToLower, and the engine's toLowerString, which    *)
(* agree on the ASCII letters; other characters are left alone).           *)
(***************************************************************************)
UpperLetters == <<"A","B","C","D","E","F","G","H","I","J","K","L","M","N","O","P","Q","R","S","T","U","V","W","X","Y","Z">>
LowerLetters == <<"a","b","c","d","e","f","g","h","i","j","k","l","m","n","o","p","q","r","s","t","u","v","w","x","y","z">>

toLowerChar(ch) ==
  IF \E i \in 1..Len(UpperLetters) : UpperLetters[i] = ch
  THEN LowerLetters[CHOOSE i \in 1..Len(UpperLetters) : UpperLetters[i] = ch]
  ELSE ch

toLowerString(s) == [i \in 1..Len(s) |-> toLowerChar(s[i])]

(***************************************************************************)
(* Grouper: detectProfileType and GroupProfiles.  A decoded profile is     *)
(* [SampleType, DurationNanos, TimeNanos]; an instant is an integer.       *)
(***************************************************************************)
\* The first SampleType entry, in order, that matches one of the checks decides;
\* "" when none matches.
RECURSIVE detectFromSampleType(_, _)
detectFromSampleType(sampleType, i) ==
  IF i > Len(sampleType) THEN ""
  ELSE LET typeLower == toLowerString(sampleType[i].Type)
           unitLower == toLowerString(sampleType[i].Unit)
       IN  IF /\ (typeLower = <<"c","p","u">> \/ typeLower = <<"s","a","m","p","l","e","s">>)
              /\ (unitLower = <<"n","a","n","o","s","e","c","o","n","d","s">> \/ unitLower = <<"c","o","u","n","t">>)
           THEN "cpu"
           ELSE IF \/ typeLower = <<"a","l","l","o","c","_","o","b","j","e","c","t","s">>
                   \/ typeLower = <<"a","l","l","o","c","_","s","p","a","c","e">>
                   \/ typeLower = <<"i","n","u","s","e","_","o","b","j","e","c","t","s">>
                   \/ typeLower = <<"i","n","u","s","e","_","s","p","a","c","e">>
           THEN "heap"
           ELSE IF typeLower = <<"g","o","r","o","u","t","i","n","e">> \/ unitLower = <<"g","o","r","o","u","t","i","n","e">>
           THEN "goroutine"
           ELSE IF typeLower = <<"c","o","n","t","e","n","t","i","o","n","s">> \/ typeLower = <<"d","e","l","a","y">>
           THEN "block"
           ELSE IF typeLower = <<"c","o","n","t","e","n","t","i","o","n","s">> /\ unitLower = <<"c","o","u","n","t">>
           THEN "mutex"
           ELSE detectFromSampleType(sampleType, i + 1)

\* detectProfileType looking for a cpu entry among all entries first
detectProfileType_CPUFirst(p) ==
  IF \E i \in 1..Len(p.SampleType) :
       /\ toLowerString(p.SampleType[i].Type) \in {<<"c","p","u">>, <<"s","a","m","p","l","e","s">>}
       /\ toLowerString(p.SampleType[i].Unit) \in {<<"n","a","n","o","s","e","c","o","n","d","s">>, <<"c","o","u","n","t">>}
  THEN "cpu"
  ELSE LET bySampleType == detectFromSampleType(p.SampleType, 1)
       IN  IF bySampleType # "" THEN bySampleType
           ELSE IF p.DurationNanos > 0 THEN "cpu"
           ELSE "unknown"

\* (the profile is never nil here: GroupProfiles skips a file that fails to load)
detectProfileType(p) ==
  LET bySampleType == detectFromSampleType(p.SampleType, 1)
  IN  IF bySampleType # "" THEN bySampleType
      ELSE IF p.DurationNanos > 0 THEN "cpu"
      ELSE "unknown"

\* inputs of the detection runs
ValueTypes ==
  { [Type |-> <<"c","p","u">>, Unit |-> <<"n","a","n","o","s","e","c","o","n","d","s">>],
    [Type |-> <<"s","a","m","p","l","e","s">>, Unit |-> <<"c","o","u","n","t">>],
    [Type |-> <<"C","P","U">>, Unit |-> <<"N","a","n","o","s","e","c","o","n","d","s">>],
    [Type |-> <<"s","a","m","p","l","e","s">>, Unit |-> <<"b","y","t","e","s">>],
    [Type |-> <<"a","l","l","o","c","_","s","p","a","c","e">>, Unit |-> <<"b","y","t","e","s">>],
    [Type |-> <<"i","n","u","s","e","_","o","b","j","e","c","t","s">>, Unit |-> <<"c","o","u","n","t">>],
    [Type |-> <<"g","o","r","o","u","t","i","n","e">>, Unit |-> <<"c","o","u","n","t">>],
    [Type |-> <<"t","h","r","e","a","d","s">>, Unit |-> <<"g","o","r","o","u","t","i","n","e">>],
    [Type |-> <<"c","o","n","t","e","n","t","i","o","n","s">>, Unit |-> <<"c","o","u","n","t">>],
    [Type |-> <<"d","e","l","a","y">>, Unit |-> <<"n","a","n","o","s","e","c","o","n","d","s">>],
    [Type |-> <<"e","v","e","n","t","s">>, Unit |-> <<"t","i","c","k","s">>] }

MaxSampleTypes == 2

SampleTypeLists ==
  UNION { [1..n -> ValueTypes] : n \in 0..MaxSampleTypes }

Durations == {-1, 0, 1000}

(***************************************************************************)
(* GroupProfiles.  The file system maps a path to [Status, ModTime,        *)
(* Profile]: Status is "missing" (os.Stat fails), "invalid" (LoadProfile   *)
(* fails) or "ok".  A ProfileFile is [Path, Time, Profile]; Size and       *)
(* Metrics take no part in the grouping and are left out here.             *)
(***************************************************************************)
\* the profile types in ascending string order (sort.Slice on result[i].Type)
TypeOrder == << "block", "cpu", "goroutine", "heap", "mutex", "unknown" >>

\* parser.GetProfileTime and the fallback to the modification time
Timestamp(file) ==
  IF file.Profile.TimeNanos > 0 THEN file.Profile.TimeNanos ELSE file.ModTime

\* the files appended to groups[t], in the order of the paths
RECURSIVE LoadGroup(_, _, _)
LoadGroup(pathList, fsys, t) ==
  IF pathList = << >> THEN << >>
  ELSE LET path == Head(pathList)
           file == fsys[path]
           rest == LoadGroup(Tail(pathList), fsys, t)
       IN  IF file.Status # "ok" THEN rest
           ELSE LET detected == detectProfileType(file.Profile)
                    fileType == IF detected = "" THEN "unknown" ELSE detected
                IN  IF fileType = t
                    THEN << [Path |-> path, Time |-> Timestamp(file),
                             Profile |-> file.Profile] >> \o rest
                    ELSE rest

IndexPermutations(n) ==
  { f \in [1..n -> 1..n] : \A i, j \in 1..n : i # j => f[i] # f[j] }

Before(t, u) == t < u

\* SortedByTime that leaves the files in the order they were loaded
SortedByTime_Unsorted(files) == { files }

\* sort.Slice(files, less by Time.Before): the sort is not stable, so the
\* result is some permutation of the files in which no file is before an
\* earlier one.
SortedByTime(files) ==
  { [i \in 1..Len(files) |-> files[perm[i]]] : perm \in
      { q \in IndexPermutations(Len(files)) :
          \A i, j \in 1..Len(files) :
            i < j => ~Before(files[q[j]].Time, files[q[i]].Time) } }

\* The results GroupProfiles can return: one group for each type that has
\* files, in ascending order of the type name, each with its files sorted.
RECURSIVE GroupsFrom(_, _, _)
GroupsFrom(pathList, fsys, k) ==
  IF k > Len(TypeOrder) THEN { << >> }
  ELSE LET files == LoadGroup(pathList, fsys, TypeOrder[k])
           rest  == GroupsFrom(pathList, fsys, k + 1)
       IN  IF files = << >> THEN rest
           ELSE { << [Type |-> TypeOrder[k], Files |-> sorted] >> \o r :
                    sorted \in SortedByTime(files), r \in rest }

GroupProfiles(pathList, fsys) == GroupsFrom(pathList, fsys, 1)

\* inputs of the grouping runs
PathNames == { "a.pprof", "b.pprof", "c.pprof" }

HeapProfileAt(t) == [SampleType |-> << [Type |-> <<"a","l","l","o","c","_","s","p","a","c","e">>, Unit |-> <<"b","y","t","e","s">>], [Type |-> <<"i","n","u","s","e","_","s","p","a","c","e">>, Unit |-> <<"b","y","t","e","s">>] >>,
                     DurationNanos |-> 0, TimeNanos |-> t]

CPUProfileAt(t) == [SampleType |-> << [Type |-> <<"s","a","m","p","l","e","s">>, Unit |-> <<"c","o","u","n","t">>], [Type |-> <<"c","p","u">>, Unit |-> <<"n","a","n","o","s","e","c","o","n","d","s">>] >>,
                    DurationNanos |-> 1000, TimeNanos |-> t]

UnknownProfileAt(t) == [SampleType |-> << [Type |-> <<"e","v","e","n","t","s">>, Unit |-> <<"t","i","c","k","s">>] >>,
                        DurationNanos |-> 0, TimeNanos |-> t]

FileKinds ==
  { [Status |-> "missing", ModTime |-> 0, Profile |-> HeapProfileAt(0)],
    [Status |-> "invalid", ModTime |-> 5, Profile |-> HeapProfileAt(0)],
    [Status |-> "ok", ModTime |-> 5, Profile |-> HeapProfileAt(1)],
    [Status |-> "ok", ModTime |-> 5, Profile |-> HeapProfileAt(2)],
    [Status |-> "ok", ModTime |-> 2, Profile |-> HeapProfileAt(0)],
    [Status |-> "ok", ModTime |-> 5, Profile |-> CPUProfileAt(1)],
    [Status |-> "ok", ModTime |-> 5, Profile |-> UnknownProfileAt(3)] }

MaxPaths == 3

PathLists == UNION { [1..n -> PathNames] : n \in 0..MaxPaths }

(***************************************************************************)
(* CommandGenerator.  An ExecutableCmd is [Command]; its description and   *)
(* output hint are fixed texts and are left out.  Of a hot path the        *)
(* generator reads Chain.Frames and RootCauseIndex, the index counted from *)
(* 0 as in the code (-1: no business frame), and of a frame FunctionName   *)
(* and ShortName.                                                          *)
(***************************************************************************)
Digits == {"0", "1", "2", "3", "4", "5", "6", "7", "8", "9"}

\* s[from:] with from counted from 0
StringFrom(s, from) == SubSeq(s, from + 1, Len(s))

\* "./<type>.pprof"
DefaultProfilePath(profType) == <<".", "/">> \o profType \o <<".","p","p","r","o","f">>

\* isAnonymousFunction: scanning back over the trailing digits
RECURSIVE endsWithDotDigits(_, _)
endsWithDotDigits(fn, i) ==
  IF i < 0 THEN FALSE
  ELSE IF fn[i + 1] = "." THEN TRUE
  ELSE IF fn[i + 1] \notin Digits THEN FALSE
  ELSE endsWithDotDigits(fn, i - 1)

isAnonymousFunction(fn) ==
  IF StringsContains(fn, <<".","f","u","n","c">>) THEN TRUE
  ELSE IF Len(fn) > 0 /\ fn[Len(fn)] \in Digits THEN endsWithDotDigits(fn, Len(fn) - 1)
  ELSE FALSE

extractAfterPackage(fn) ==
  LET lastSlash == StringsLastIndex(fn, <<"/">>)
  IN  IF lastSlash >= 0
      THEN LET remainder == StringFrom(fn, lastSlash + 1)
               dotIndex  == StringsIndex(remainder, <<".">>)
           IN  IF dotIndex >= 0 THEN StringFrom(remainder, dotIndex + 1) ELSE remainder
      ELSE LET dotIndex == StringsIndex(fn, <<".">>)
           IN  IF dotIndex >= 0 THEN StringFrom(fn, dotIndex + 1) ELSE fn

\* the backward scan of extractAnonymousFunctionName: the start of the result
RECURSIVE anonymousStart(_, _, _)
anonymousStart(fn, i, parenDepth) ==
  IF i < 0 THEN 0
  ELSE LET c == fn[i + 1]
       IN  IF c = ")" THEN anonymousStart(fn, i - 1, parenDepth + 1)
           ELSE IF c = "(" THEN anonymousStart(fn, i - 1, parenDepth - 1)
           ELSE IF c = "." /\ parenDepth = 0
           THEN LET prefix == SubSeq(fn, 1, i)
                IN  IF \/ StringsContains(prefix, <<"/">>)
                       \/ prefix = <<"m","a","i","n">>
                       \/ prefix = <<"r","u","n","t","i","m","e">>
                    THEN i + 1
                    ELSE anonymousStart(fn, i - 1, parenDepth)
           ELSE anonymousStart(fn, i - 1, parenDepth)

extractAnonymousFunctionName(fn) ==
  LET funcIndex == StringsIndex(fn, <<".","f","u","n","c">>)
  IN  IF funcIndex = -1 THEN extractAfterPackage(fn)
      ELSE LET result == StringFrom(fn, anonymousStart(fn, funcIndex - 1, 0))
           IN  IF result = << >> THEN fn ELSE result

\* the backward scan of extractShortFunctionName: the last "." outside parentheses
RECURSIVE lastDotOutsideParens(_, _, _)
lastDotOutsideParens(fn, i, parenDepth) ==
  IF i < 0 THEN -1
  ELSE LET c == fn[i + 1]
       IN  IF c = ")" THEN lastDotOutsideParens(fn, i - 1, parenDepth + 1)
           ELSE IF c = "(" THEN lastDotOutsideParens(fn, i - 1, parenDepth - 1)
           ELSE IF c = "." /\ parenDepth = 0 THEN i
           ELSE lastDotOutsideParens(fn, i - 1, parenDepth)

extractShortFunctionName(fn) ==
  IF fn = << >> THEN fn
  ELSE IF isAnonymousFunction(fn) THEN extractAnonymousFunctionName(fn)
  ELSE LET lastDot == lastDotOutsideParens(fn, Len(fn) - 1, 0)
       IN  IF lastDot >= 0 /\ lastDot < Len(fn) - 1
           THEN StringFrom(fn, lastDot + 1)
           ELSE fn

GoToolPprof == <<"g","o"," ","t","o","o","l"," ","p","p","r","o","f">>

GenerateFocusCommand(profilePath, functionName) ==
  [Command |-> GoToolPprof \o <<" ","-","f","o","c","u","s","=">> \o extractShortFunctionName(functionName)
                 \o <<" ">> \o profilePath]

GenerateTopCommand(profilePath) ==
  [Command |-> GoToolPprof \o <<" ","-","t","o","p"," ">> \o profilePath]

GenerateListCommand(profilePath, functionName) ==
  [Command |-> GoToolPprof \o <<" ","-","l","i","s","t","=">> \o extractShortFunctionName(functionName)
                 \o <<" ">> \o profilePath]

GenerateWebCommand(profilePath) ==
  [Command |-> GoToolPprof \o <<" ","-","h","t","t","p","=",":","8","0","8","0"," ">> \o profilePath]

GenerateDiffCommand(basePath, targetPath) ==
  [Command |-> GoToolPprof \o <<" ","-","b","a","s","e","=">> \o basePath \o <<" ">> \o targetPath]

GenerateAllocSpaceCommand(profilePath) ==
  [Command |-> GoToolPprof \o <<" ","-","a","l","l","o","c","_","s","p","a","c","e"," ">> \o profilePath]

GenerateInuseSpaceCommand(profilePath) ==
  [Command |-> GoToolPprof \o <<" ","-","i","n","u","s","e","_","s","p","a","c","e"," ">> \o profilePath]

blockingPatterns ==
  << <<"c","h","a","n","s","e","n","d">>,
     <<"c","h","a","n","r","e","c","v">>,
     <<"s","e","l","e","c","t">>,
     <<"s","e","m","a","c","q","u","i","r","e">>,
     <<"L","o","c","k">>,
     <<"R","L","o","c","k">>,
     <<"W","a","i","t">>,
     <<"S","l","e","e","p">> >>

isBlockingFunction(functionName) ==
  \E i \in 1..Len(blockingPatterns) : StringsContains(functionName, blockingPatterns[i])

containsFocusCommand(cmds, functionName) ==
  \E i \in 1..Len(cmds) :
    StringsContains(cmds[i].Command, <<"-","f","o","c","u","s","=">> \o functionName)

HasRootCause(hp) ==
  hp.RootCauseIndex >= 0 /\ hp.RootCauseIndex < Len(hp.Chain.Frames)

RootCauseFrame(hp) == hp.Chain.Frames[hp.RootCauseIndex + 1]

GenerateCommands(profilePathArg, profType, hps) ==
  LET profilePath == IF profilePathArg = << >> THEN DefaultProfilePath(profType)
                     ELSE profilePathArg
      focused == IF Len(hps) > 0 /\ HasRootCause(hps[1])
                 THEN << GenerateFocusCommand(profilePath, RootCauseFrame(hps[1]).ShortName),
                         GenerateListCommand(profilePath, RootCauseFrame(hps[1]).ShortName) >>
                 ELSE << >>
  IN  << GenerateTopCommand(profilePath) >> \o focused
        \o << GenerateWebCommand(profilePath) >>

GenerateCommandsForProfileType(profilePath, profType, hps) ==
  LET cmds == GenerateCommands(profilePath, profType, hps)
      heapCommands == << GenerateAllocSpaceCommand(profilePath),
                         GenerateInuseSpaceCommand(profilePath) >>
  IN  IF profType = <<"h","e","a","p">>
      THEN IF Len(cmds) > 1
           THEN << cmds[1] >> \o heapCommands \o Tail(cmds)
           ELSE cmds \o heapCommands
      ELSE cmds

\* the goroutine branch: a focus command for the first hot path whose root
\* cause is a blocking function
RECURSIVE blockingFocus(_, _, _)
blockingFocus(primaryPath, hps, i) ==
  IF i > Len(hps) THEN << >>
  ELSE IF HasRootCause(hps[i]) /\ isBlockingFunction(RootCauseFrame(hps[i]).FunctionName)
  THEN << GenerateFocusCommand(primaryPath, RootCauseFrame(hps[i]).ShortName) >>
  ELSE blockingFocus(primaryPath, hps, i + 1)

GenerateCommandsWithContext(profilePathsArg, profType, hps) ==
  LET profilePaths == IF Len(profilePathsArg) = 0 THEN << DefaultProfilePath(profType) >>
                      ELSE profilePathsArg
      primaryPath == profilePaths[1]
      c1 == << GenerateTopCommand(primaryPath) >>
      c2 == c1 \o (IF profType = <<"h","e","a","p">>
                   THEN << GenerateAllocSpaceCommand(primaryPath),
                           GenerateInuseSpaceCommand(primaryPath) >>
                   ELSE IF profType = <<"g","o","r","o","u","t","i","n","e">>
                   THEN blockingFocus(primaryPath, hps, 1)
                   ELSE << >>)
      c3 == c2 \o (IF Len(hps) > 0 /\ HasRootCause(hps[1])
                   THEN (IF ~containsFocusCommand(c2, RootCauseFrame(hps[1]).ShortName)
                         THEN << GenerateFocusCommand(primaryPath,
                                                      RootCauseFrame(hps[1]).ShortName) >>
                         ELSE << >>)
                          \o << GenerateListCommand(primaryPath,
                                                    RootCauseFrame(hps[1]).ShortName) >>
                   ELSE << >>)
      c4 == c3 \o (IF Len(profilePaths) >= 2
                   THEN << GenerateDiffCommand(profilePaths[1],
                                               profilePaths[Len(profilePaths)]) >>
                   ELSE << >>)
  IN  c4 \o << GenerateWebCommand(primaryPath) >>

\* inputs of the command runs
ProfilePathNames ==
  { <<"a",".","p","p","r","o","f">>,
    <<"b",".","p","p","r","o","f">>,
    <<".","/","a",".","p","p","r","o","f">> }

MaxProfilePaths == 2

ProfilePathLists == UNION { [1..n -> ProfilePathNames] : n \in 0..MaxProfilePaths }

CommandProfileTypes == { <<"c","p","u">>, <<"h","e","a","p">>, <<"g","o","r","o","u","t","i","n","e">> }

CommandHotPaths ==
  { [Chain |-> [Frames |-> << [FunctionName |-> <<"m","a","i","n",".","h","a","n","d","l","e","r">>,
       ShortName |-> <<"h","a","n","d","l","e","r">>, Category |-> CategoryBusiness],
                 [FunctionName |-> <<"r","u","n","t","i","m","e",".","m","a","l","l","o","c","g","c">>,
       ShortName |-> <<"m","a","l","l","o","c","g","c">>, Category |-> CategoryRuntime] >>],
     RootCauseIndex |-> 0],
    [Chain |-> [Frames |-> << [FunctionName |-> <<"m","a","i","n",".","(","*","P","o","o","l",")",".","W","a","i","t">>,
       ShortName |-> <<"(","*","P","o","o","l",")",".","W","a","i","t">>, Category |-> CategoryBusiness] >>],
     RootCauseIndex |-> 0],
    [Chain |-> [Frames |-> << [FunctionName |-> <<"m","a","i","n",".","c","r","e","a","t","e","W","o","r","k","e","r",".","f","u","n","c","1">>,
       ShortName |-> <<"c","r","e","a","t","e","W","o","r","k","e","r",".","f","u","n","c","1">>, Category |-> CategoryBusiness] >>],
     RootCauseIndex |-> 0],
    [Chain |-> [Frames |-> << [FunctionName |-> <<"r","u","n","t","i","m","e",".","g","o","p","a","r","k">>,
       ShortName |-> <<"g","o","p","a","r","k">>, Category |-> CategoryRuntime] >>],
     RootCauseIndex |-> -1] }

MaxHotPathList == 2

HotPathLists == UNION { [1..n -> CommandHotPaths] : n \in 0..MaxHotPathList }

(***************************************************************************)
(* Extractor and PathAnalyzer.  A sample is [Value, Location]; a location  *)
(* is the sequence of its lines, innermost first, and a line is the name   *)
(* of its function (<< >>: no function, or one with an empty name).  A nil *)
(* location and one without lines are both << >>: neither gives a frame.   *)
(* A frame is [FunctionName, ShortName, PackageName, Category]; file and   *)
(* line take no part in the analysis.  A percentage is the fraction        *)
(* [num, den]; the rounding of float64 is left out.                        *)
(***************************************************************************)
ExtractPackageName(functionName) ==
  IF functionName = << >> THEN << >>
  ELSE LET lastSlash   == StringsLastIndex(functionName, <<"/">>)
           searchStart == IF lastSlash >= 0 THEN lastSlash + 1 ELSE 0
           dotIndex    == StringsIndex(StringFrom(functionName, searchStart), <<".">>)
       IN  IF dotIndex < 0 THEN functionName
           ELSE SubSeq(functionName, 1, searchStart + dotIndex)

ExtractShortName(functionName) ==
  IF functionName = << >> THEN << >>
  ELSE LET lastSlash   == StringsLastIndex(functionName, <<"/">>)
           searchStart == IF lastSlash >= 0 THEN lastSlash + 1 ELSE 0
           dotIndex    == StringsIndex(StringFrom(functionName, searchStart), <<".">>)
       IN  IF dotIndex < 0 THEN functionName
           ELSE StringFrom(functionName, searchStart + dotIndex + 1)

UnknownName == <<"u","n","k","n","o","w","n">>

ExtractStackFrame(classifier, fnName) ==
  IF fnName = << >>
  THEN [FunctionName |-> UnknownName, ShortName |-> UnknownName,
        PackageName |-> << >>, Category |-> CategoryUnknown]
  ELSE [FunctionName |-> fnName,
        ShortName    |-> ExtractShortName(fnName),
        PackageName  |-> ExtractPackageName(fnName),
        Category     |-> Classify(classifier, ExtractPackageName(fnName))]

Categories ==
  { CategoryRuntime, CategoryStdlib, CategoryThirdParty, CategoryBusiness, CategoryUnknown }

Percent(value, total) ==
  IF total > 0 THEN [num |-> value * 100, den |-> total] ELSE [num |-> 0, den |-> 1]

AddPercent(p, q) ==
  IF p.den = q.den THEN [num |-> p.num + q.num, den |-> p.den]
  ELSE [num |-> p.num * q.den + q.num * p.den, den |-> p.den * q.den]

\* the frames with the locations from the first to the last
RECURSIVE chainFrames_LeafFirst(_, _, _)
chainFrames_LeafFirst(classifier, locations, i) ==
  IF i < 1 THEN << >>
  ELSE chainFrames_LeafFirst(classifier, locations, i - 1)
         \o [j \in 1..Len(locations[i]) |->
               ExtractStackFrame(classifier, locations[i][Len(locations[i]) + 1 - j])]

\* the frames of ExtractCallChain: locations from the last to the first, the
\* lines of each from the last to the first
RECURSIVE chainFrames(_, _, _)
chainFrames(classifier, locations, i) ==
  IF i < 1 THEN << >>
  ELSE [j \in 1..Len(locations[i]) |->
          ExtractStackFrame(classifier, locations[i][Len(locations[i]) + 1 - j])]
         \o chainFrames(classifier, locations, i - 1)

\* the boundary points ExtractCallChain collects while it appends the frames
RECURSIVE chainBoundaries(_, _)
chainBoundaries(frames, n) ==
  IF n < 1 THEN << >>
  ELSE chainBoundaries(frames, n - 1)
         \o (IF n > 1 /\ frames[n].Category # frames[n - 1].Category
             THEN << n - 1 >> ELSE << >>)

calculateCategoryBreakdown(frames) ==
  [c \in Categories |-> Cardinality({ i \in 1..Len(frames) : frames[i].Category = c })]

ExtractCallChain(classifier, sample, valueIndex, totalValue) ==
  LET value  == IF valueIndex >= 0 /\ valueIndex < Len(sample.Value)
                THEN sample.Value[valueIndex + 1] ELSE 0
      frames == chainFrames(classifier, sample.Location, Len(sample.Location))
  IN  [Frames            |-> frames,
       TotalValue        |-> value,
       TotalPct          |-> Percent(value, totalValue),
       SampleCount       |-> 1,
       CategoryBreakdown |-> calculateCategoryBreakdown(frames),
       BoundaryPoints    |-> chainBoundaries(frames, Len(frames))]

ExtractCallChainWithCumValue(classifier, sample, totalValue) ==
  LET cumIndex == IF Len(sample.Value) <= 1 THEN 0 ELSE 1
  IN  ExtractCallChain(classifier, sample, cumIndex, totalValue)

DefaultMaxCallStackDepth == 10

DefaultMaxHotPaths == 5

NewPathAnalyzer(classifier, config) ==
  [classifier |-> classifier,
   config |-> [MaxCallStackDepth |-> IF config.MaxCallStackDepth <= 0
                                     THEN DefaultMaxCallStackDepth
                                     ELSE config.MaxCallStackDepth,
               MaxHotPaths       |-> IF config.MaxHotPaths <= 0
                                     THEN DefaultMaxHotPaths
                                     ELSE config.MaxHotPaths]]

\* strings joined by "|"
RECURSIVE joinWithBar(_)
joinWithBar(names) ==
  IF Len(names) = 0 THEN << >>
  ELSE IF Len(names) = 1 THEN names[1]
  ELSE names[1] \o <<"|">> \o joinWithBar(Tail(names))

MaxKeyFrames == 5

generateSmartCallChainKey(frames) ==
  IF Len(frames) = 0 THEN << >>
  ELSE LET businessFrames == SelectSeq(frames, LAMBDA f : f.Category = CategoryBusiness)
           maxFrames == IF Len(frames) < MaxKeyFrames THEN Len(frames) ELSE MaxKeyFrames
       IN  IF Len(businessFrames) > 0
           THEN <<"b","u","s","i","n","e","s","s",":">>
                  \o joinWithBar([i \in 1..Len(businessFrames) |->
                                    businessFrames[i].FunctionName])
           ELSE <<"s","y","s","t","e","m",":">>
                  \o joinWithBar([i \in 1..maxFrames |-> frames[i].FunctionName])

\* the map with the values of later chains of a key left out of its entry
RECURSIVE aggregateInOrder_CountOnly(_, _, _)
aggregateInOrder_CountOnly(chains, i, aggregated) ==
  IF i > Len(chains) THEN aggregated
  ELSE IF \E k \in 1..Len(aggregated) :
            aggregated[k].key = generateSmartCallChainKey(chains[i].Frames)
  THEN aggregateInOrder_CountOnly(chains, i + 1,
         [k \in 1..Len(aggregated) |->
            IF aggregated[k].key = generateSmartCallChainKey(chains[i].Frames)
            THEN [aggregated[k] EXCEPT !.chain.SampleCount = @ + chains[i].SampleCount]
            ELSE aggregated[k]])
  ELSE aggregateInOrder_CountOnly(chains, i + 1,
         Append(aggregated, [key |-> generateSmartCallChainKey(chains[i].Frames),
                             chain |-> chains[i]]))

\* The map AggregateCallChains fills, its entries [key, chain] listed in the
\* order in which the keys were first seen.
RECURSIVE aggregateInOrder(_, _, _)
aggregateInOrder(chains, i, aggregated) ==
  IF i > Len(chains) THEN aggregated
  ELSE LET chain == chains[i]
           key   == generateSmartCallChainKey(chain.Frames)
       IN  IF \E k \in 1..Len(aggregated) : aggregated[k].key = key
           THEN aggregateInOrder(chains, i + 1,
                  [k \in 1..Len(aggregated) |->
                     IF aggregated[k].key = key
                     THEN [key |-> key,
                           chain |-> [aggregated[k].chain EXCEPT
                             !.TotalValue  = @ + chain.TotalValue,
                             !.TotalPct    = AddPercent(@, chain.TotalPct),
                             !.SampleCount = @ + chain.SampleCount]]
                     ELSE aggregated[k]])
           ELSE aggregateInOrder(chains, i + 1,
                  Append(aggregated, [key |-> key, chain |-> chain]))

\* AggregateCallChains copies the map into a slice by ranging over it; the
\* order of a range over a map is not specified, so every order is a result.
AggregateCallChains(chains) ==
  LET entries == aggregateInOrder(chains, 1, << >>)
  IN  { [i \in 1..Len(entries) |-> entries[perm[i]].chain] :
          perm \in IndexPermutations(Len(entries)) }

\* sort.Slice(aggregated, TotalValue descending): not a stable sort; some
\* permutation in which no chain precedes one of greater TotalValue
SortedByTotalValue(aggregated) ==
  { [i \in 1..Len(aggregated) |-> aggregated[perm[i]]] : perm \in
      { q \in IndexPermutations(Len(aggregated)) :
          \A i, j \in 1..Len(aggregated) :
            i < j => ~(aggregated[q[j]].TotalValue > aggregated[q[i]].TotalValue) } }

\* indices count from 0, as in the code
FindBoundaryPoints(frames) ==
  IF Len(frames) <= 1 THEN << >>
  ELSE LET RECURSIVE walk(_)
           walk(i) == IF i >= Len(frames) THEN << >>
                      ELSE (IF frames[i + 1].Category # frames[i].Category
                            THEN << i >> ELSE << >>) \o walk(i + 1)
       IN  walk(1)

\* FindBusinessFrames that leaves out the entry frame
FindBusinessFrames_SkipEntry(frames) ==
  LET RECURSIVE walk(_)
      walk(i) == IF i >= Len(frames) THEN << >>
                 ELSE (IF frames[i + 1].Category = CategoryBusiness
                       THEN << i >> ELSE << >>) \o walk(i + 1)
  IN  walk(1)

FindBusinessFrames(frames) ==
  LET RECURSIVE walk(_)
      walk(i) == IF i >= Len(frames) THEN << >>
                 ELSE (IF frames[i + 1].Category = CategoryBusiness
                       THEN << i >> ELSE << >>) \o walk(i + 1)
  IN  walk(0)

\* the value column and the extraction AnalyzeHotPaths chooses, from the
\* sample types and the first sample of profile p
ChooseValueIndex(p, profType) ==
  LET matching == { i \in 1..Len(p.SampleType) :
                      \/ p.SampleType[i].Type = "cpu"
                      \/ p.SampleType[i].Unit = "nanoseconds" }
  IN  IF Len(p.SampleType) > 1
      THEN IF matching # {}
           THEN [valueIndex |-> (CHOOSE i \in matching : \A j \in matching : i <= j) - 1,
                 useCumValue |-> TRUE]
           ELSE [valueIndex |-> 0, useCumValue |-> FALSE]
      ELSE IF profType = "cpu" /\ Len(p.Sample) > 0 /\ Len(p.Sample[1].Value) > 1
           THEN [valueIndex |-> 1, useCumValue |-> TRUE]
           ELSE [valueIndex |-> 0, useCumValue |-> FALSE]

RECURSIVE sumColumn(_, _)
sumColumn(samples, valueIndex) ==
  IF Len(samples) = 0 THEN 0
  ELSE (IF Len(samples[1].Value) > valueIndex THEN samples[1].Value[valueIndex + 1] ELSE 0)
         + sumColumn(Tail(samples), valueIndex)

\* the chains of the samples of one profile, those without frames dropped
extractChains(a, samples, choice, totalValue) ==
  SelectSeq([i \in 1..Len(samples) |->
               IF choice.useCumValue
               THEN ExtractCallChainWithCumValue(a.classifier, samples[i], totalValue)
               ELSE ExtractCallChain(a.classifier, samples[i], choice.valueIndex, totalValue)],
            LAMBDA chain : Len(chain.Frames) > 0)

\* one of the top chains made a HotPath
toHotPath(a, chain, profType) ==
  LET limited == IF Len(chain.Frames) > a.config.MaxCallStackDepth
                 THEN LET cut == SubSeq(chain.Frames, 1, a.config.MaxCallStackDepth)
                      IN  [chain EXCEPT !.Frames = cut,
                                        !.BoundaryPoints = FindBoundaryPoints(cut),
                                        !.CategoryBreakdown = calculateCategoryBreakdown(cut)]
                 ELSE chain
      businessFrames == FindBusinessFrames(limited.Frames)
  IN  [Chain          |-> limited,
       BusinessFrames |-> businessFrames,
       RootCauseIndex |-> IF Len(businessFrames) > 0
                          THEN businessFrames[Len(businessFrames)] ELSE -1,
       ProfileType    |-> profType]

\* all the sorted chains as hot paths
topHotPaths_All(a, sorted, profType) ==
  [i \in 1..Len(sorted) |-> toHotPath(a, sorted[i], profType)]

\* the top MaxHotPaths of the sorted chains, as hot paths
topHotPaths(a, sorted, profType) ==
  LET maxPaths == IF Len(sorted) < a.config.MaxHotPaths THEN Len(sorted)
                  ELSE a.config.MaxHotPaths
  IN  [i \in 1..maxPaths |-> toHotPath(a, sorted[i], profType)]

\* The results AnalyzeHotPaths can return (nil is << >>).
AnalyzeHotPaths(a, p, profType) ==
  LET choice     == ChooseValueIndex(p, profType)
      totalValue == sumColumn(p.Sample, choice.valueIndex)
      chains     == extractChains(a, p.Sample, choice, totalValue)
  IN  IF Len(p.Sample) = 0 \/ totalValue = 0 THEN { << >> }
      ELSE { topHotPaths(a, sorted, profType) :
               sorted \in UNION { SortedByTotalValue(aggregated) :
                                    aggregated \in AggregateCallChains(chains) } }

\* the chains of all profiles that have samples and a total other than 0
RECURSIVE allChainsOf(_, _, _)
allChainsOf(a, profs, choice) ==
  IF Len(profs) = 0 THEN << >>
  ELSE LET p == profs[1]
           profileTotalValue == sumColumn(p.Sample, choice.valueIndex)
       IN  (IF Len(p.Sample) = 0 \/ profileTotalValue = 0 THEN << >>
            ELSE extractChains(a, p.Sample, choice, profileTotalValue))
             \o allChainsOf(a, Tail(profs), choice)

RECURSIVE totalAcrossProfiles(_, _)
totalAcrossProfiles(profs, valueIndex) ==
  IF Len(profs) = 0 THEN 0
  ELSE sumColumn(profs[1].Sample, valueIndex) + totalAcrossProfiles(Tail(profs), valueIndex)

\* The results AnalyzeMultipleProfiles can return.
AnalyzeMultipleProfiles(a, profs, profType) ==
  IF Len(profs) = 0 THEN { << >> }
  ELSE IF Len(profs) = 1 THEN AnalyzeHotPaths(a, profs[1], profType)
  ELSE LET choice    == ChooseValueIndex(profs[1], profType)
           allChains == allChainsOf(a, profs, choice)
           total     == totalAcrossProfiles(profs, choice.valueIndex)
           Repct(aggregated) ==
             [i \in 1..Len(aggregated) |->
                IF total > 0
                THEN [aggregated[i] EXCEPT !.TotalPct = Percent(aggregated[i].TotalValue, total)]
                ELSE aggregated[i]]
       IN  IF Len(allChains) = 0 THEN { << >> }
           ELSE { topHotPaths(a, sorted, profType) :
                    sorted \in UNION { SortedByTotalValue(Repct(aggregated)) :
                                         aggregated \in AggregateCallChains(allChains) } }

\* inputs of the analyzer runs
LocatorClassifier == NewClassifier(<< >>, << >>)

LocatorProfiles ==
  { [SampleType |-> << [Type |-> "alloc_objects", Unit |-> "count"], [Type |-> "alloc_space", Unit |-> "bytes"] >>,
     Sample |-> << [Value |-> << 2, 20 >>,
         Location |-> << << <<"r","u","n","t","i","m","e",".","m","a","l","l","o","c","g","c">> >>,
                      << <<"m","a","i","n",".","f">> >> >>],
       [Value |-> << 2, 30 >>,
         Location |-> << << <<"m","a","i","n",".","g">> >>,
                      << <<"m","a","i","n",".","f">> >> >>] >>],
    [SampleType |-> << [Type |-> "samples", Unit |-> "count"], [Type |-> "cpu", Unit |-> "nanoseconds"] >>,
     Sample |-> << [Value |-> << 1, 3 >>,
         Location |-> << << <<"r","u","n","t","i","m","e",".","m","a","l","l","o","c","g","c">> >>,
                      << <<"m","a","i","n",".","f">> >> >>],
       [Value |-> << 1, 2 >>,
         Location |-> << << <<"r","u","n","t","i","m","e",".","g","o","p","a","r","k">> >>,
                      << <<"m","a","i","n",".","f">> >> >>],
       [Value |-> << 1, 5 >>,
         Location |-> << << <<"m","a","i","n",".","g">> >> >>],
       [Value |-> << 1, 1 >>,
         Location |-> << << <<"r","u","n","t","i","m","e",".","g","o","p","a","r","k">> >> >>] >>],
    [SampleType |-> << [Type |-> "samples", Unit |-> "count"] >>,
     Sample |-> << [Value |-> << 4 >>,
         Location |-> << << <<"m","a","i","n",".","g">> >> >>],
       [Value |-> << 4 >>,
         Location |-> << << <<"m","a","i","n",".","f">> >>,
                      << <<"r","u","n","t","i","m","e",".","m","a","i","n">> >> >>],
       [Value |-> << 4 >>,
         Location |-> << << <<"r","u","n","t","i","m","e",".","g","o","p","a","r","k">> >> >>] >>],
    [SampleType |-> << [Type |-> "cpu", Unit |-> "nanoseconds"], [Type |-> "samples", Unit |-> "count"] >>,
     Sample |-> << [Value |-> << 7, 1 >>,
         Location |-> << << <<"r","u","n","t","i","m","e",".","m","a","l","l","o","c","g","c">> >>,
                      << <<"m","a","i","n",".","f">> >> >>],
       [Value |-> << 1, 2 >>,
         Location |-> << << <<"m","a","i","n",".","g">> >> >>] >>],
    [SampleType |-> << [Type |-> "samples", Unit |-> "count"] >>,
     Sample |-> << [Value |-> << 1, 4 >>,
         Location |-> << << <<"r","u","n","t","i","m","e",".","m","a","l","l","o","c","g","c">> >>,
                      << <<"m","a","i","n",".","f">> >> >>],
       [Value |-> << 2, 3 >>,
         Location |-> << << <<"r","u","n","t","i","m","e",".","m","a","l","l","o","c","g","c">>, <<"m","a","i","n",".","g">> >>,
                      <<  >> >>] >>],
    [SampleType |-> << [Type |-> "samples", Unit |-> "count"] >>,
     Sample |-> << >>],
    [SampleType |-> << [Type |-> "samples", Unit |-> "count"] >>,
     Sample |-> << [Value |-> << 0 >>,
         Location |-> << << <<"r","u","n","t","i","m","e",".","m","a","l","l","o","c","g","c">> >>,
                      << <<"m","a","i","n",".","f">> >> >>] >>],
    [SampleType |-> << [Type |-> "samples", Unit |-> "count"] >>,
     Sample |-> << [Value |-> << 3 >>,
         Location |-> << >>],
       [Value |-> << 2 >>,
         Location |-> << << <<"r","u","n","t","i","m","e",".","g","o","p","a","r","k">> >> >>],
       [Value |-> << 1 >>,
         Location |-> << << << >> >>,
                      << <<"m","a","i","n",".","f">> >> >>] >>] }

\* inputs of the extractor runs: samples whose locations bear one line each,
\* the last of them with a line that has no function, and a sample with a
\* location of two lines and one without lines
LocatorSamples ==
  { [Value |-> << 1, 3 >>,
     Location |-> << << <<"r","u","n","t","i","m","e",".","m","a","l","l","o","c","g","c">> >>,
                     << <<"m","a","i","n",".","f">> >> >>],
    [Value |-> << 1, 2 >>,
     Location |-> << << <<"r","u","n","t","i","m","e",".","g","o","p","a","r","k">> >>,
                     << <<"m","a","i","n",".","f">> >> >>],
    [Value |-> << 4, 1 >>,
     Location |-> << << <<"f","m","t",".","P","r","i","n","t","l","n">> >>,
                     << <<"m","a","i","n",".","g">> >>,
                     << <<"m","a","i","n",".","f">> >>,
                     << <<"r","u","n","t","i","m","e",".","m","a","i","n">> >> >>],
    [Value |-> << 2 >>,
     Location |-> << << << >> >>,
                     << <<"r","u","n","t","i","m","e",".","g","o","p","a","r","k">> >> >>],
    [Value |-> << 2, 3 >>,
     Location |-> << << <<"r","u","n","t","i","m","e",".","m","a","l","l","o","c","g","c">>,
                        <<"m","a","i","n",".","g">> >>,
                     << >> >>],
    [Value |-> << 3, 1 >>,
     Location |-> << << <<"m","a","i","n",".","f","|","m","a","i","n",".","g">> >> >>] }

MaxSamples == 3

SampleLists == UNION { [1..n -> LocatorSamples] : n \in 0..MaxSamples }

ExtractArgs ==
  { [valueIndex |-> 0, totalValue |-> 10],
    [valueIndex |-> 1, totalValue |-> 10],
    [valueIndex |-> 1, totalValue |-> 0] }

MaxProfiles == 2

ProfileLists == UNION { [1..n -> LocatorProfiles] : n \in 0..MaxProfiles }

\* the largest values the command line lets through
StackDepthLimit == 100

HotPathsLimit == 50

LocatorConfigs ==
  { [MaxCallStackDepth |-> d, MaxHotPaths |-> m] : d \in {0, 1, 2}, m \in {0, 1, 2} }
    \cup { [MaxCallStackDepth |-> -1, MaxHotPaths |-> -1],
           [MaxCallStackDepth |-> StackDepthLimit, MaxHotPaths |-> HotPathsLimit],
           [MaxCallStackDepth |-> StackDepthLimit + 1, MaxHotPaths |-> HotPathsLimit + 1] }

LocatorProfileTypes == { "cpu", "heap" }

(***************************************************************************)
(* Numbers and texts of the trend analysis and the rule engine.  A float64 *)
(* is the fraction [n, d] in lowest terms with d > 0: the arithmetic is    *)
(* exact, the rounding of float64 is left out.  A character that is not    *)
(* ASCII is one element "U+xxxx" of a string.  A pointer is << >> (nil)    *)
(* or << v >>.  A time is a number of seconds after 2024-01-01T00:00:00Z,  *)
(* less than an hour, in UTC.                                              *)
(***************************************************************************)
Abs(i) == IF i < 0 THEN -i ELSE i

RECURSIVE GCD(_, _)
GCD(a, b) == IF b = 0 THEN a ELSE GCD(b, a % b)

reduced(n, d, g) ==
  IF d < 0 THEN [n |-> -(n \div g), d |-> -(d \div g)]
  ELSE [n |-> n \div g, d |-> d \div g]

\* the fraction n/d in lowest terms with a positive denominator
Rat(n, d) == reduced(n, d, GCD(Abs(n), Abs(d)))

Float(i) == [n |-> i, d |-> 1]

ratProduct(x, y) == Rat(x.n * y.n, x.d * y.d)

RatMul(a, b) == ratProduct(Rat(a.n, b.d), Rat(b.n, a.d))

RatDiv(a, b) == RatMul(a, Rat(b.d, b.n))

ratSum(a, b, g) == Rat(a.n * (b.d \div g) + b.n * (a.d \div g), (a.d \div g) * b.d)

RatAdd(a, b) == ratSum(a, b, GCD(a.d, b.d))

RatNeg(a) == [n |-> -a.n, d |-> a.d]

RatSub(a, b) == RatAdd(a, RatNeg(b))

Floor(a) == a.n \div a.d

\* a < b: by the whole parts, then by the fractions
RatLess(a, b) ==
  IF Floor(a) # Floor(b) THEN Floor(a) < Floor(b)
  ELSE (a.n % a.d) * b.d < (b.n % b.d) * a.d

RatLeq(a, b) == a = b \/ RatLess(a, b)

NilPtr == << >>

Ptr(v) == << v >>

Deref(p) == p[1]

DigitChars == <<"0", "1", "2", "3", "4", "5", "6", "7", "8", "9">>

\* the decimal digits of i >= 0
RECURSIVE IntToString(_)
IntToString(i) ==
  IF i < 10 THEN << DigitChars[i + 1] >>
  ELSE IntToString(i \div 10) \o << DigitChars[(i % 10) + 1] >>

RECURSIVE PowerOfTen(_)
PowerOfTen(k) == IF k = 0 THEN 1 ELSE 10 * PowerOfTen(k - 1)

RECURSIVE PadZeros(_, _)
PadZeros(s, width) == IF Len(s) >= width THEN s ELSE PadZeros(<<"0">> \o s, width)

\* fmt.Sprintf("%.<prec>f", r): rounded to prec decimals, a tie to the even
\* digit
formatRounded(negative, rounded, prec) ==
  (IF negative THEN <<"-">> ELSE << >>)
    \o IntToString(rounded \div PowerOfTen(prec))
    \o <<".">>
    \o PadZeros(IntToString(rounded % PowerOfTen(prec)), prec)

roundHalfEven(whole, rest) ==
  IF RatLess(Rat(1, 2), rest) \/ (rest = Rat(1, 2) /\ whole % 2 = 1)
  THEN whole + 1 ELSE whole

formatScaled(negative, scaled, prec) ==
  formatRounded(negative,
                roundHalfEven(Floor(scaled), Rat(scaled.n % scaled.d, scaled.d)), prec)

FormatFixed(r, prec) ==
  formatScaled(r.n < 0, RatMul([n |-> Abs(r.n), d |-> r.d], Float(PowerOfTen(prec))), prec)

\* strings.ReplaceAll for a non-empty old
RECURSIVE ReplaceAll(_, _, _)
ReplaceAll(s, old, new) ==
  IF Len(s) < Len(old) THEN s
  ELSE IF HasPrefix(s, old)
  THEN new \o ReplaceAll(SubSeq(s, Len(old) + 1, Len(s)), old, new)
  ELSE << s[1] >> \o ReplaceAll(Tail(s), old, new)

\* t.Format(time.RFC3339)
FormatRFC3339(t) ==
  <<"2","0","2","4","-","0","1","-","0","1","T","0","0",":">>
    \o PadZeros(IntToString(t \div 60), 2) \o <<":">>
    \o PadZeros(IntToString(t % 60), 2) \o <<"Z">>

\* last.Sub(first), in seconds
Sub(last, first) == last - first

\* Duration.Minutes()
Minutes(d) == Rat(d, 60)

(***************************************************************************)
(* Trends (pkg/analyzer/trends.go).                                        *)
(***************************************************************************)
RECURSIVE RatSum(_)
RatSum(terms) ==
  IF Len(terms) = 0 THEN Float(0) ELSE RatAdd(terms[1], RatSum(Tail(terms)))

\* LinearRegression in exact arithmetic; values are float64 values and the
\* index of the first is 0.  The steps of the function follow one another as
\* operators, each given what the steps before it computed.
NoRegression == [slope |-> Float(0), r2 |-> Float(0)]

\* R2 clamped to [0, 1]
regressionClamped(slope, r2) ==
  [slope |-> slope,
   r2 |-> IF RatLess(r2, Float(0)) THEN Float(0)
          ELSE IF RatLess(Float(1), r2) THEN Float(1) ELSE r2]

\* regressionR2 with R2 = 0 when every value is the same
regressionR2_NoSpread(slope, ssRes, ssTot) ==
  regressionClamped(slope, IF ssTot.n = 0 THEN Float(0)
                           ELSE RatSub(Float(1), RatDiv(ssRes, ssTot)))

regressionR2(slope, ssRes, ssTot) ==
  regressionClamped(slope, IF ssTot.n = 0 THEN Float(1)
                           ELSE RatSub(Float(1), RatDiv(ssRes, ssTot)))

squared(e) == RatMul(e, e)

regressionResiduals(values, meanY, slope, intercept) ==
  regressionR2(slope,
    RatSum([i \in 1..Len(values) |->
              squared(RatSub(values[i], RatAdd(RatMul(slope, Float(i - 1)), intercept)))]),
    RatSum([i \in 1..Len(values) |-> squared(RatSub(values[i], meanY))]))

regressionLine(values, meanX, meanY, slope) ==
  regressionResiduals(values, meanY, slope, RatSub(meanY, RatMul(slope, meanX)))

regressionSlope(values, meanX, meanY, numerator, denominator) ==
  IF denominator.n = 0 THEN NoRegression
  ELSE regressionLine(values, meanX, meanY, RatDiv(numerator, denominator))

regressionMeans(values, n, sumXY, sumX2, meanX, meanY) ==
  regressionSlope(values, meanX, meanY,
                  RatSub(sumXY, RatMul(n, RatMul(meanX, meanY))),
                  RatSub(sumX2, RatMul(n, RatMul(meanX, meanX))))

regressionSums(values, n, sumX, sumY, sumXY, sumX2) ==
  regressionMeans(values, n, sumXY, sumX2, RatDiv(sumX, n), RatDiv(sumY, n))

LinearRegressionExact(values) ==
  IF Len(values) < 2 THEN NoRegression
  ELSE regressionSums(values, Float(Len(values)),
         RatSum([i \in 1..Len(values) |-> Float(i - 1)]),
         RatSum(values),
         RatSum([i \in 1..Len(values) |-> RatMul(Float(i - 1), values[i])]),
         RatSum([i \in 1..Len(values) |-> squared(Float(i - 1))]))

RECURSIVE GCDOfAll(_)
GCDOfAll(ints) ==
  IF Len(ints) = 0 THEN 0 ELSE GCD(Abs(ints[1]), GCDOfAll(Tail(ints)))

\* LinearRegression of integer values.  The slope is homogeneous in the
\* values and R2 does not change with their scale, so the sums are taken over
\* the values divided by their greatest common divisor: they stay within the
\* integers of the model checker for values in bytes.
rescaled(lr, g) == [slope |-> RatMul(lr.slope, Float(g)), r2 |-> lr.r2]

scaledRegression(ints, g) ==
  rescaled(LinearRegressionExact([i \in 1..Len(ints) |-> Float(ints[i] \div g)]), g)

LinearRegression(ints) ==
  scaledRegression(ints, IF GCDOfAll(ints) = 0 THEN 1 ELSE GCDOfAll(ints))

DirectionThreshold == Rat(1, 100)

Increasing == <<"i","n","c","r","e","a","s","i","n","g">>

Decreasing == <<"d","e","c","r","e","a","s","i","n","g">>

Stable == <<"s","t","a","b","l","e">>

getDirection(slope) ==
  IF RatLess(DirectionThreshold, slope) THEN Increasing
  ELSE IF RatLess(slope, RatNeg(DirectionThreshold)) THEN Decreasing
  ELSE Stable

MinTrendFiles == 3

trendMetrics(lr) ==
  Ptr([Slope |-> lr.slope, R2 |-> lr.r2, Direction |-> getDirection(lr.slope)])

TrendOf(ints) ==
  IF Len(ints) >= MinTrendFiles THEN trendMetrics(LinearRegression(ints)) ELSE NilPtr

\* CalculateTrends: nil, or a pointer to the trends of the group
CalculateTrends(group) ==
  LET withMetrics == SelectSeq(group.Files, LAMBDA file : file.Metrics # NilPtr)
      heapValues == [i \in 1..Len(withMetrics) |-> Deref(withMetrics[i].Metrics).InuseSpace]
      goroutineValues ==
        [i \in 1..Len(withMetrics) |-> Deref(withMetrics[i].Metrics).GoroutineCount]
  IN  IF Len(group.Files) < MinTrendFiles THEN NilPtr
      ELSE IF group.Type = "heap"
      THEN Ptr([HeapInuse |-> TrendOf(heapValues), GoroutineCount |-> NilPtr])
      ELSE IF group.Type = "goroutine"
      THEN Ptr([HeapInuse |-> NilPtr, GoroutineCount |-> TrendOf(goroutineValues)])
      ELSE Ptr([HeapInuse |-> NilPtr, GoroutineCount |-> NilPtr])

\* the trends map main builds: an entry for each group with trends
DriverTrends(groupList) ==
  LET types == { groupList[i].Type : i \in
                   { k \in 1..Len(groupList) : CalculateTrends(groupList[k]) # NilPtr } }
  IN  [t \in types |->
         CalculateTrends(groupList[CHOOSE k \in 1..Len(groupList) :
                                     /\ groupList[k].Type = t
                                     /\ \A l \in (k + 1)..Len(groupList) :
                                          groupList[l].Type # t])]

(***************************************************************************)
(* Rule engine (pkg/rules/engine.go).  Identifiers, titles, conditions and *)
(* templates are strings of characters; names, severities, suggestions,    *)
(* profile types, correlations and the keys of maps are only compared and  *)
(* copied.  A nil map and an empty one are both the empty function.        *)
(***************************************************************************)
contains(s, substr) ==
  Len(s) >= Len(substr) /\ (s = substr \/ (Len(s) > 0 /\ StringsContains(s, substr)))

containsString(s, substr) ==
  IF Len(substr) = 0 THEN TRUE
  ELSE IF Len(s) < Len(substr) THEN FALSE
  ELSE StringsContains(s, substr)

keywordPatterns ==
  [keyword \in {"memory_leak", "goroutine_leak", "cpu_hotspot"} |->
     IF keyword = "memory_leak"
     THEN << <<"U+5185","U+5B58","U+589E","U+957F">>,
             <<"U+5185","U+5B58","U+6CC4","U+6F0F">>,
             <<"m","e","m","o","r","y"," ","l","e","a","k">>,
             <<"m","e","m","o","r","y"," ","g","r","o","w","t","h">> >>
     ELSE IF keyword = "goroutine_leak"
     THEN << <<"g","o","r","o","u","t","i","n","e">>,
             <<"U+534F","U+7A0B","U+6CC4","U+6F0F">>,
             <<"U+534F","U+7A0B","U+589E","U+957F">> >>
     ELSE << <<"c","p","u">>,
             <<"U+70ED","U+70B9","U+51FD","U+6570">>,
             <<"c","p","u"," ","h","o","t","s","p","o","t">> >>]

patternMatches(title, keyword) ==
  \E i \in 1..Len(keywordPatterns[keyword]) :
    containsString(toLowerString(title), toLowerString(keywordPatterns[keyword][i]))

\* extractAllTitleKeywords, as the set of its elements
extractAllTitleKeywords(title) ==
  { keyword \in DOMAIN keywordPatterns : patternMatches(title, keyword) }

\* The values extractTitleKeyword can return.  It ranges over the map of
\* patterns and returns the first keyword met that has a matching pattern;
\* the order of a range over a map is not specified, so a title with patterns
\* of several keywords can give any of them.
extractTitleKeyword(title) ==
  IF extractAllTitleKeywords(title) = {} THEN { "" }
  ELSE extractAllTitleKeywords(title)

MapGet(m, key) == IF key \in DOMAIN m THEN m[key] ELSE NilPtr

matchesProfileType(rule, profType) ==
  \E i \in 1..Len(rule.ProfileTypes) : rule.ProfileTypes[i] = profType

\* evaluateCondition without the thresholds on R2
evaluateCondition_AnyFit(condition, group, trendsPtr) ==
  IF condition = <<"c","p","u","_","p","r","o","f","i","l","e","_","e","x","i","s","t","s">> /\ group.Type = "cpu"
  THEN Len(group.Files) > 0
  ELSE IF trendsPtr = NilPtr THEN FALSE
  ELSE LET trends == Deref(trendsPtr)
       IN  \/ /\ trends.HeapInuse # NilPtr
              /\ RatLess(Float(10), Deref(trends.HeapInuse).Slope)
              /\ contains(condition, <<"h","e","a","p","_","i","n","u","s","e">>)
              /\ contains(condition, <<"s","l","o","p","e">>)
              /\ Len(group.Files) >= 3
           \/ /\ trends.GoroutineCount # NilPtr
              /\ RatLess(Float(1), Deref(trends.GoroutineCount).Slope)
              /\ contains(condition, <<"g","o","r","o","u","t","i","n","e","_","c","o","u","n","t">>)
              /\ contains(condition, <<"s","l","o","p","e">>)
              /\ Len(group.Files) >= 3

evaluateCondition(condition, group, trendsPtr) ==
  IF condition = <<"c","p","u","_","p","r","o","f","i","l","e","_","e","x","i","s","t","s">> /\ group.Type = "cpu"
  THEN Len(group.Files) > 0
  ELSE IF trendsPtr = NilPtr THEN FALSE
  ELSE LET trends == Deref(trendsPtr)
       IN  \/ /\ trends.HeapInuse # NilPtr
              /\ RatLess(Rat(85, 100), Deref(trends.HeapInuse).R2)
              /\ RatLess(Float(10), Deref(trends.HeapInuse).Slope)
              /\ contains(condition, <<"h","e","a","p","_","i","n","u","s","e">>)
              /\ contains(condition, <<"s","l","o","p","e">>)
              /\ Len(group.Files) >= 3
           \/ /\ trends.GoroutineCount # NilPtr
              /\ RatLess(Rat(9, 10), Deref(trends.GoroutineCount).R2)
              /\ RatLess(Float(1), Deref(trends.GoroutineCount).Slope)
              /\ contains(condition, <<"g","o","r","o","u","t","i","n","e","_","c","o","u","n","t">>)
              /\ contains(condition, <<"s","l","o","p","e">>)
              /\ Len(group.Files) >= 3

BytesPerMB == 1024 * 1024

formatMemoryRate(mbPerMinute) ==
  IF RatLess(mbPerMinute, Float(0)) THEN FormatFixed(mbPerMinute, 2)
  ELSE IF RatLess(mbPerMinute, Float(1))
  THEN FormatFixed(RatMul(mbPerMinute, Float(1024)), 2) \o <<" ","K","B">>
  ELSE IF RatLess(mbPerMinute, Float(1024))
  THEN FormatFixed(mbPerMinute, 2) \o <<" ","M","B">>
  ELSE FormatFixed(RatDiv(mbPerMinute, Float(1024)), 2) \o <<" ","G","B">>

\* d in seconds
formatDuration(d) ==
  IF d < 60 THEN FormatFixed(Float(d), 1) \o <<" ","U+79D2">>
  ELSE IF d < 3600 THEN FormatFixed(Rat(d, 60), 1) \o <<" ","U+5206","U+949F">>
  ELSE FormatFixed(Rat(d, 3600), 1) \o <<" ","U+5C0F","U+65F6">>

FirstTime(group) == group.Files[1].Time

LastTime(group) == group.Files[Len(group.Files)].Time

\* RatePerMinute without the number of intervals
RatePerMinute_PerSample(slope, group, durationMinutes) ==
  IF RatLess(Float(0), durationMinutes) /\ Len(group.Files) > 1
  THEN RatDiv(slope, durationMinutes)
  ELSE Float(0)

\* slope * (files - 1) / minutes, 0 unless there are minutes and two files
RatePerMinute(slope, group, durationMinutes) ==
  IF RatLess(Float(0), durationMinutes) /\ Len(group.Files) > 1
  THEN RatDiv(RatMul(slope, Float(Len(group.Files) - 1)), durationMinutes)
  ELSE Float(0)

\* durationMinutes of buildEvidence
evidenceDurationMinutes(group) ==
  IF Len(group.Files) > 1
  THEN (IF RatLeq(Minutes(Sub(LastTime(group), FirstTime(group))), Float(0))
        THEN Float(1)
        ELSE Minutes(Sub(LastTime(group), FirstTime(group))))
  ELSE Float(0)

\* {{.slope}}, {{.r2}} and {{.direction}} of the heap trend
replaceHeapVariables(v, heapPtr, group) ==
  IF heapPtr # NilPtr
  THEN ReplaceAll(
         ReplaceAll(
           ReplaceAll(v, <<"{","{",".","s","l","o","p","e","}","}">>,
                      formatMemoryRate(
                        RatDiv(RatePerMinute(Deref(heapPtr).Slope, group,
                                             evidenceDurationMinutes(group)),
                               Float(BytesPerMB)))),
           <<"{","{",".","r","2","}","}">>, FormatFixed(Deref(heapPtr).R2, 2)),
         <<"{","{",".","d","i","r","e","c","t","i","o","n","}","}">>, Deref(heapPtr).Direction)
  ELSE v

\* {{.goroutine_slope}}, {{.goroutine_r2}} and {{.goroutine_direction}}
replaceGoroutineVariables(v, goroutinePtr, group) ==
  IF goroutinePtr # NilPtr
  THEN ReplaceAll(
         ReplaceAll(
           ReplaceAll(v, <<"{","{",".","g","o","r","o","u","t","i","n","e","_","s","l","o","p","e","}","}">>,
                      FormatFixed(RatePerMinute(Deref(goroutinePtr).Slope, group,
                                                evidenceDurationMinutes(group)), 2)),
           <<"{","{",".","g","o","r","o","u","t","i","n","e","_","r","2","}","}">>,
           FormatFixed(Deref(goroutinePtr).R2, 2)),
         <<"{","{",".","g","o","r","o","u","t","i","n","e","_","d","i","r","e","c","t","i","o","n","}","}">>,
         Deref(goroutinePtr).Direction)
  ELSE v

\* {{.duration}}, {{.start_time}} and {{.end_time}}
replaceTimeVariables(v, group) ==
  IF Len(group.Files) > 1
  THEN ReplaceAll(
         ReplaceAll(
           ReplaceAll(v, <<"{","{",".","d","u","r","a","t","i","o","n","}","}">>,
                      formatDuration(Sub(LastTime(group), FirstTime(group)))),
           <<"{","{",".","s","t","a","r","t","_","t","i","m","e","}","}">>, FormatRFC3339(FirstTime(group))),
         <<"{","{",".","e","n","d","_","t","i","m","e","}","}">>, FormatRFC3339(LastTime(group)))
  ELSE v

\* one value of the evidence template with the variables replaced
buildEvidenceValue(tmpl, trends, group) ==
  ReplaceAll(
    replaceTimeVariables(
      replaceGoroutineVariables(
        replaceHeapVariables(tmpl, trends.HeapInuse, group),
        trends.GoroutineCount, group),
      group),
    <<"{","{",".","f","i","l","e","_","c","o","u","n","t","}","}">>, IntToString(Len(group.Files)))

NilMap == << >>

buildEvidence(template, trendsPtr, group) ==
  IF DOMAIN template = {} \/ trendsPtr = NilPtr THEN NilMap
  ELSE [key \in DOMAIN template |->
          buildEvidenceValue(template[key], Deref(trendsPtr), group)]

Present == <<"p","r","e","s","e","n","t">>

evaluateTrendCondition(condition, trend) ==
  /\ contains(condition, Increasing) => trend.Direction = Increasing
  /\ contains(condition, Decreasing) => trend.Direction = Decreasing
  /\ contains(condition, <<"s","l","o","p","e"," ",">"," ","0">>)
       => ~(RatLeq(trend.Slope, Float(0)) \/ RatLess(trend.R2, Rat(7, 10)))
  /\ contains(condition, <<"s","l","o","p","e"," ","<","="," ","0">>)
       => ~(RatLess(Float(0), trend.Slope) /\ RatLess(Rat(7, 10), trend.R2))
  /\ contains(condition, <<"s","l","o","p","e"," ","<"," ","0">>)
       => ~RatLeq(Float(0), trend.Slope)
  /\ (/\ contains(condition, <<"s","l","o","p","e">>)
      /\ ~contains(condition, <<"s","l","o","p","e"," ",">">>)
      /\ ~contains(condition, <<"s","l","o","p","e"," ","<">>)
      /\ ~contains(condition, <<"s","l","o","p","e"," ","=">>))
       => ~RatLess(trend.R2, Rat(7, 10))

\* evaluateCrossCondition: whether the condition holds, and the entry it
\* leaves in matchedTrends (a pointer)
evaluateCrossCondition(condition, profType, group, trendsPtr) ==
  IF trendsPtr = NilPtr \/ Len(group.Files) < 3
  THEN [met |-> FALSE, matched |-> NilPtr]
  ELSE LET trends == Deref(trendsPtr)
       IN  IF profType = "heap"
           THEN IF trends.HeapInuse # NilPtr
                   /\ evaluateTrendCondition(condition, Deref(trends.HeapInuse))
                THEN [met |-> TRUE, matched |-> trends.HeapInuse]
                ELSE [met |-> FALSE, matched |-> NilPtr]
           ELSE IF profType = "goroutine"
           THEN IF trends.GoroutineCount # NilPtr
                   /\ evaluateTrendCondition(condition, Deref(trends.GoroutineCount))
                THEN [met |-> TRUE, matched |-> trends.GoroutineCount]
                ELSE [met |-> FALSE, matched |-> NilPtr]
           ELSE IF profType = "cpu"
           THEN [met |-> contains(condition, <<"c", "p", "u">>),
                 matched |-> Ptr([Slope |-> Float(0), R2 |-> Float(0),
                                  Direction |-> Present])]
           ELSE [met |-> FALSE, matched |-> NilPtr]

\* matchedTrends: the matched trend of each profile type
checkCorrelation(correlation, matchedTrends) ==
  IF correlation = "same_direction"
  THEN Cardinality({ matchedTrends[t].Direction :
                       t \in { u \in DOMAIN matchedTrends :
                                 matchedTrends[u].Direction # Present } }) = 1
  ELSE IF correlation = "both_increasing"
  THEN \A t \in DOMAIN matchedTrends :
         matchedTrends[t].Direction \in { Increasing, Present }
  ELSE IF correlation = "time_correlated"
  THEN Cardinality(DOMAIN matchedTrends) >= 2
  ELSE TRUE

calculateDurationMinutes(group) ==
  IF Len(group.Files) < 2 THEN Float(1)
  ELSE IF RatLeq(Minutes(Sub(LastTime(group), FirstTime(group))), Float(0)) THEN Float(1)
  ELSE Minutes(Sub(LastTime(group), FirstTime(group)))

\* groupMap[profType]: the last group of that type, the zero group if none
GroupOfType(groupList, profType) ==
  IF \E k \in 1..Len(groupList) : groupList[k].Type = profType
  THEN groupList[CHOOSE k \in 1..Len(groupList) :
                   /\ groupList[k].Type = profType
                   /\ \A l \in (k + 1)..Len(groupList) : groupList[l].Type # profType]
  ELSE [Type |-> "", Files |-> << >>]

\* {{.heap_slope}}, {{.heap_r2}} and {{.heap_direction}}
replaceCrossHeapVariables(v, heapTrends, heapGroup) ==
  IF heapTrends # NilPtr /\ Deref(heapTrends).HeapInuse # NilPtr
  THEN ReplaceAll(
         ReplaceAll(
           ReplaceAll(v, <<"{","{",".","h","e","a","p","_","s","l","o","p","e","}","}">>,
                      formatMemoryRate(
                        RatDiv(RatePerMinute(Deref(Deref(heapTrends).HeapInuse).Slope,
                                             heapGroup, calculateDurationMinutes(heapGroup)),
                               Float(BytesPerMB)))),
           <<"{","{",".","h","e","a","p","_","r","2","}","}">>,
           FormatFixed(Deref(Deref(heapTrends).HeapInuse).R2, 2)),
         <<"{","{",".","h","e","a","p","_","d","i","r","e","c","t","i","o","n","}","}">>,
         Deref(Deref(heapTrends).HeapInuse).Direction)
  ELSE v

\* {{.goroutine_slope}}, {{.goroutine_r2}} and {{.goroutine_direction}}
replaceCrossGoroutineVariables(v, goroutineTrends, goroutineGroup) ==
  IF goroutineTrends # NilPtr /\ Deref(goroutineTrends).GoroutineCount # NilPtr
  THEN ReplaceAll(
         ReplaceAll(
           ReplaceAll(v, <<"{","{",".","g","o","r","o","u","t","i","n","e","_","s","l","o","p","e","}","}">>,
                      FormatFixed(
                        RatePerMinute(Deref(Deref(goroutineTrends).GoroutineCount).Slope,
                                      goroutineGroup,
                                      calculateDurationMinutes(goroutineGroup)), 2)),
           <<"{","{",".","g","o","r","o","u","t","i","n","e","_","r","2","}","}">>,
           FormatFixed(Deref(Deref(goroutineTrends).GoroutineCount).R2, 2)),
         <<"{","{",".","g","o","r","o","u","t","i","n","e","_","d","i","r","e","c","t","i","o","n","}","}">>,
         Deref(Deref(goroutineTrends).GoroutineCount).Direction)
  ELSE v

buildCrossEvidenceValue(tmpl, trendMap, groupList) ==
  replaceCrossGoroutineVariables(
    replaceCrossHeapVariables(tmpl, MapGet(trendMap, "heap"), GroupOfType(groupList, "heap")),
    MapGet(trendMap, "goroutine"), GroupOfType(groupList, "goroutine"))

buildCrossEvidence(template, trendMap, groupList) ==
  IF DOMAIN template = {} THEN NilMap
  ELSE [key \in DOMAIN template |->
          buildCrossEvidenceValue(template[key], trendMap, groupList)]

RECURSIVE Concat(_)
Concat(seqs) == IF Len(seqs) = 0 THEN << >> ELSE seqs[1] \o Concat(Tail(seqs))

\* crossRuleFindings without the test of the correlation
crossRuleFindings_AnyCorrelation(rule, groupList, trendMap) ==
  LET types == DOMAIN rule.Conditions
      allTypesPresent ==
        \A t \in types : /\ \E k \in 1..Len(groupList) : groupList[k].Type = t
                         /\ t \in DOMAIN trendMap
      Outcome(t) == evaluateCrossCondition(rule.Conditions[t], t,
                                           GroupOfType(groupList, t), trendMap[t])
      allConditionsMet == \A t \in types : Outcome(t).met
  IN  IF ~allTypesPresent THEN << >>
      ELSE IF ~allConditionsMet THEN << >>
      ELSE [a \in 1..Len(rule.Actions) |->
              [RuleID          |-> rule.ID,
               RuleName        |-> rule.Name,
               Severity        |-> rule.Actions[a].Severity,
               Title           |-> rule.Actions[a].Title,
               Evidence        |-> buildCrossEvidence(rule.Actions[a].EvidenceTemplate,
                                                      trendMap, groupList),
               Suggestions     |-> rule.Actions[a].Suggestions,
               IsCrossAnalysis |-> TRUE]]

\* The findings of one cross-analysis rule.  The rule ranges over the map of
\* its conditions and stops at the first type that is missing or whose
\* condition fails; whatever the order, findings follow only when every type
\* is present and every condition holds.
crossRuleFindings(rule, groupList, trendMap) ==
  LET types == DOMAIN rule.Conditions
      allTypesPresent ==
        \A t \in types : /\ \E k \in 1..Len(groupList) : groupList[k].Type = t
                         /\ t \in DOMAIN trendMap
      Outcome(t) == evaluateCrossCondition(rule.Conditions[t], t,
                                           GroupOfType(groupList, t), trendMap[t])
      allConditionsMet == \A t \in types : Outcome(t).met
      matchedTrends == [t \in types |-> Deref(Outcome(t).matched)]
  IN  IF ~allTypesPresent THEN << >>
      ELSE IF ~allConditionsMet THEN << >>
      ELSE IF rule.Correlation # "" /\ ~checkCorrelation(rule.Correlation, matchedTrends)
      THEN << >>
      ELSE [a \in 1..Len(rule.Actions) |->
              [RuleID          |-> rule.ID,
               RuleName        |-> rule.Name,
               Severity        |-> rule.Actions[a].Severity,
               Title           |-> rule.Actions[a].Title,
               Evidence        |-> buildCrossEvidence(rule.Actions[a].EvidenceTemplate,
                                                      trendMap, groupList),
               Suggestions     |-> rule.Actions[a].Suggestions,
               IsCrossAnalysis |-> TRUE]]

evaluateCrossAnalysis(e, groupList, trendMap) ==
  Concat([r \in 1..Len(e.crossAnalysisRules) |->
            crossRuleFindings(e.crossAnalysisRules[r], groupList, trendMap)])

\* step 1 of Evaluate: the findings of the single-type rules
singleTypeFindings(e, groupList, trendMap) ==
  Concat([g \in 1..Len(groupList) |->
    Concat([r \in 1..Len(e.rules) |->
      LET group == groupList[g]
          rule  == e.rules[r]
          groupTrends == MapGet(trendMap, group.Type)
      IN  IF matchesProfileType(rule, group.Type)
             /\ evaluateCondition(rule.Condition, group, groupTrends)
          THEN [a \in 1..Len(rule.Actions) |->
                  [RuleID          |-> rule.ID,
                   RuleName        |-> rule.Name,
                   Severity        |-> rule.Actions[a].Severity,
                   Title           |-> rule.Actions[a].Title,
                   Evidence        |-> buildEvidence(rule.Actions[a].EvidenceTemplate,
                                                     groupTrends, group),
                   Suggestions     |-> rule.Actions[a].Suggestions,
                   IsCrossAnalysis |-> FALSE]]
          ELSE << >>])])

\* the findings Evaluate has collected before it removes duplicates
collectFindings(e, groupList, trendMap) ==
  singleTypeFindings(e, groupList, trendMap)
    \o evaluateCrossAnalysis(e, groupList, trendMap)

FindingKey(finding) == finding.RuleID \o <<":">> \o finding.Title

\* result = append(result, finding) with every finding moved to the front
appendFinding_InFront(result, finding) == << finding >> \o result

\* result = append(result, finding)
appendFinding(result, finding) == Append(result, finding)

\* the loop of deduplicateFindings over the cross-analysis findings
RECURSIVE dedupCross(_, _, _)
dedupCross(crossFindings, i, st) ==
  IF i > Len(crossFindings) THEN st
  ELSE LET finding == crossFindings[i]
           key     == FindingKey(finding)
       IN  IF key \in st.seen THEN dedupCross(crossFindings, i + 1, st)
           ELSE dedupCross(crossFindings, i + 1,
                  [seen |-> st.seen \cup { key },
                   seenTitleKeywords |->
                     st.seenTitleKeywords \cup extractAllTitleKeywords(finding.Title),
                   result |-> appendFinding(st.result, finding)])

\* the loop over the single-type findings keeping every one of them
dedupSingle_KeepAll(singleFindings, i, st) ==
  { st.result \o SubSeq(singleFindings, i, Len(singleFindings)) }

\* the loop over the single-type findings: the results it can end with
RECURSIVE dedupSingle(_, _, _)
dedupSingle(singleFindings, i, st) ==
  IF i > Len(singleFindings) THEN { st.result }
  ELSE LET finding == singleFindings[i]
           key     == FindingKey(finding)
       IN  IF key \in st.seen THEN dedupSingle(singleFindings, i + 1, st)
           ELSE UNION {
                  IF titleKeyword # "" /\ titleKeyword \in st.seenTitleKeywords
                  THEN dedupSingle(singleFindings, i + 1, st)
                  ELSE dedupSingle(singleFindings, i + 1,
                         [seen |-> st.seen \cup { key },
                          seenTitleKeywords |->
                            IF titleKeyword # ""
                            THEN st.seenTitleKeywords \cup { titleKeyword }
                            ELSE st.seenTitleKeywords,
                          result |-> appendFinding(st.result, finding)]) :
                  titleKeyword \in extractTitleKeyword(finding.Title) }

\* The results deduplicateFindings can return.
deduplicateFindings(found) ==
  IF Len(found) <= 1 THEN { found }
  ELSE dedupSingle(SelectSeq(found, LAMBDA f : ~f.IsCrossAnalysis), 1,
                   dedupCross(SelectSeq(found, LAMBDA f : f.IsCrossAnalysis), 1,
                              [seen |-> {}, seenTitleKeywords |-> {}, result |-> << >>]))

\* The results Evaluate can return, for an engine that is not nil.
Evaluate(e, groupList, trendMap) ==
  deduplicateFindings(collectFindings(e, groupList, trendMap))

\* inputs of the engine runs: rules
MemoryGrowthRule ==
  [ID |-> <<"m","e","m","o","r","y","_","g","r","o","w","t","h">>,
   Name |-> "Memory Growth",
   ProfileTypes |-> << "heap" >>,
   Condition |-> <<"t","r","e","n","d","s",".","h","e","a","p","_","i","n","u","s","e",".","s","l","o","p","e"," ",">"," ","1","0",".","0">>,
   Actions |-> <<
       [Severity |-> "high", Title |-> <<"M","e","m","o","r","y"," ","G","r","o","w","i","n","g">>,
        EvidenceTemplate |-> [slope |-> <<"{","{",".","s","l","o","p","e","}","}">>, r2 |-> <<"{","{",".","r","2","}","}">>],
        Suggestions |-> << "Check for leaks" >>] >>]

HeapGoroutineRule ==
  [ID |-> <<"h","e","a","p","_","g","o","r","o","u","t","i","n","e">>,
   Name |-> "Heap held by goroutines",
   ProfileTypes |-> << "heap" >>,
   Condition |-> <<"t","r","e","n","d","s",".","h","e","a","p","_","i","n","u","s","e",".","s","l","o","p","e"," ",">"," ","0">>,
   Actions |-> <<
       [Severity |-> "high", Title |-> <<"G","o","r","o","u","t","i","n","e"," ","m","e","m","o","r","y"," ","l","e","a","k">>,
        EvidenceTemplate |-> [rate |-> <<"{","{",".","s","l","o","p","e","}","}","/","m","i","n",","," ","{","{",".","d","i","r","e","c","t","i","o","n","}","}",","," ","{","{",".","d","u","r","a","t","i","o","n","}","}",","," ","{","{",".","f","i","l","e","_","c","o","u","n","t","}","}"," ","f","i","l","e","s">>],
        Suggestions |-> << "Check goroutine exits" >>] >>]

GoroutineLeakRule ==
  [ID |-> <<"g","o","r","o","u","t","i","n","e","_","l","e","a","k">>,
   Name |-> "Goroutine Leak",
   ProfileTypes |-> << "goroutine" >>,
   Condition |-> <<"t","r","e","n","d","s",".","g","o","r","o","u","t","i","n","e","_","c","o","u","n","t",".","s","l","o","p","e"," ",">"," ","1",".","0">>,
   Actions |-> <<
       [Severity |-> "high", Title |-> <<"G","o","r","o","u","t","i","n","e"," ","L","e","a","k">>,
        EvidenceTemplate |-> [slope |-> <<"{","{",".","g","o","r","o","u","t","i","n","e","_","s","l","o","p","e","}","}">>, since |-> <<"{","{",".","s","t","a","r","t","_","t","i","m","e","}","}">>],
        Suggestions |-> << "Check blocked goroutines" >>],
       [Severity |-> "medium", Title |-> <<"U+534F","U+7A0B","U+589E","U+957F">>,
        EvidenceTemplate |-> NilMap,
        Suggestions |-> << "Check channel usage" >>] >>]

CPUHotspotRule ==
  [ID |-> <<"c","p","u","_","h","o","t","s","p","o","t">>,
   Name |-> "CPU Hotspot",
   ProfileTypes |-> << "cpu" >>,
   Condition |-> <<"c","p","u","_","p","r","o","f","i","l","e","_","e","x","i","s","t","s">>,
   Actions |-> <<
       [Severity |-> "medium", Title |-> <<"C","P","U"," ","U+70ED","U+70B9","U+51FD","U+6570">>,
        EvidenceTemplate |-> NilMap,
        Suggestions |-> << "Optimise the hot function" >>] >>]

MemoryLeakRule ==
  [ID |-> <<"m","e","m","o","r","y","_","l","e","a","k">>,
   Name |-> "Memory Leak",
   ProfileTypes |-> << "heap", "goroutine" >>,
   Condition |-> <<"t","r","e","n","d","s",".","h","e","a","p","_","i","n","u","s","e",".","s","l","o","p","e",","," ","t","r","e","n","d","s",".","g","o","r","o","u","t","i","n","e","_","c","o","u","n","t",".","s","l","o","p","e">>,
   Actions |-> <<
       [Severity |-> "critical", Title |-> <<"M","e","m","o","r","y"," ","L","e","a","k">>,
        EvidenceTemplate |-> [r2 |-> <<"{","{",".","r","2","}","}","{","{",".","g","o","r","o","u","t","i","n","e","_","r","2","}","}">>],
        Suggestions |-> << "Take a heap diff" >>] >>]

\* a rule for a heap that is released again
HeapShrinkRule ==
  [ID |-> <<"h","e","a","p","_","s","h","r","i","n","k">>,
   Name |-> "Heap Shrink",
   ProfileTypes |-> << "heap" >>,
   Condition |-> <<"t","r","e","n","d","s",".","h","e","a","p","_","i","n","u","s","e",".","s","l","o","p","e"," ","<"," ","0",","," ","d","e","c","r","e","a","s","i","n","g">>,
   Actions |-> <<
       [Severity |-> "low", Title |-> <<"H","e","a","p"," ","r","e","l","e","a","s","e","d">>,
        EvidenceTemplate |-> NilMap,
        Suggestions |-> << "Nothing to do" >>] >>]

RuleCatalogue ==
  { MemoryGrowthRule, HeapGoroutineRule, GoroutineLeakRule, CPUHotspotRule, MemoryLeakRule,
    HeapShrinkRule }

MaxRules == 2

RuleLists == UNION { [1..n -> RuleCatalogue] : n \in 0..MaxRules }

GoroutineMemoryCrossRule ==
  [ID |-> <<"g","o","r","o","u","t","i","n","e","_","m","e","m","o","r","y","_","l","e","a","k">>,
   Name |-> "Goroutine and memory",
   Conditions |-> [heap |-> <<"s","l","o","p","e"," ",">"," ","0">>, goroutine |-> <<"i","n","c","r","e","a","s","i","n","g",","," ","s","l","o","p","e"," ",">"," ","0">>],
   Correlation |-> "same_direction",
   Actions |-> <<
       [Severity |-> "critical", Title |-> <<"G","o","r","o","u","t","i","n","e"," ","U+6CC4","U+6F0F","U+5BFC","U+81F4","U+5185","U+5B58","U+589E","U+957F">>,
        EvidenceTemplate |-> [heap |-> <<"{","{",".","h","e","a","p","_","s","l","o","p","e","}","}">>, goroutine |-> <<"{","{",".","g","o","r","o","u","t","i","n","e","_","s","l","o","p","e","}","}">>],
        Suggestions |-> << "Fix the goroutine leak" >>] >>]

CPUMemoryCrossRule ==
  [ID |-> <<"c","p","u","_","m","e","m","o","r","y">>,
   Name |-> "CPU and memory",
   Conditions |-> [cpu |-> <<"c","p","u">>, heap |-> <<"s","l","o","p","e">>],
   Correlation |-> "time_correlated",
   Actions |-> <<
       [Severity |-> "high", Title |-> <<"M","e","m","o","r","y"," ","L","e","a","k"," ","u","n","d","e","r"," ","l","o","a","d">>,
        EvidenceTemplate |-> [heap |-> <<"{","{",".","h","e","a","p","_","d","i","r","e","c","t","i","o","n","}","}"," ","{","{",".","h","e","a","p","_","r","2","}","}">>],
        Suggestions |-> << "Reduce allocations" >>] >>]

\* a cross-analysis rule with the id and the title of MemoryGrowthRule
MemoryGrowthCrossRule ==
  [ID |-> <<"m","e","m","o","r","y","_","g","r","o","w","t","h">>,
   Name |-> "Memory growth with goroutines",
   Conditions |-> [heap |-> <<"s","l","o","p","e"," ",">"," ","0">>, goroutine |-> <<"s","l","o","p","e"," ",">"," ","0">>],
   Correlation |-> "same_direction",
   Actions |-> <<
       [Severity |-> "high", Title |-> <<"M","e","m","o","r","y"," ","G","r","o","w","i","n","g">>,
        EvidenceTemplate |-> NilMap,
        Suggestions |-> << "Check for leaks" >>] >>]

\* a cross-analysis rule with three actions, two of them with one title
TrendPairCrossRule ==
  [ID |-> <<"t","r","e","n","d","_","p","a","i","r">>,
   Name |-> "Heap and goroutines move together",
   Conditions |-> [heap |-> <<"s","l","o","p","e">>, goroutine |-> <<"s","l","o","p","e">>],
   Correlation |-> "same_direction",
   Actions |-> <<
       [Severity |-> "medium", Title |-> <<"C","o","r","r","e","l","a","t","e","d"," ","t","r","e","n","d","s">>,
        EvidenceTemplate |-> NilMap,
        Suggestions |-> << "Look for a shared cause" >>],
       [Severity |-> "low", Title |-> <<"S","h","a","r","e","d"," ","c","a","u","s","e">>,
        EvidenceTemplate |-> NilMap,
        Suggestions |-> << "Compare the profiles" >>],
       [Severity |-> "low", Title |-> <<"C","o","r","r","e","l","a","t","e","d"," ","t","r","e","n","d","s">>,
        EvidenceTemplate |-> NilMap,
        Suggestions |-> << "Take more profiles" >>] >>]

CrossRuleLists ==
  { << >>, << GoroutineMemoryCrossRule >>, << CPUMemoryCrossRule >>,
    << TrendPairCrossRule >>,
    << MemoryGrowthCrossRule >>,
    << GoroutineMemoryCrossRule, CPUMemoryCrossRule >> }

\* inputs of the engine runs: groups as GroupProfiles returns them, in
\* ascending order of the type
HeapGroup100To300 ==
  [Type |-> "heap",
   Files |-> << [Time |-> 0, Metrics |-> Ptr([InuseSpace |-> 100 * BytesPerMB, GoroutineCount |-> 0])],
                [Time |-> 60, Metrics |-> Ptr([InuseSpace |-> 200 * BytesPerMB, GoroutineCount |-> 0])],
                [Time |-> 120, Metrics |-> Ptr([InuseSpace |-> 300 * BytesPerMB, GoroutineCount |-> 0])] >>]

HeapGroup1To3 ==
  [Type |-> "heap",
   Files |-> << [Time |-> 0, Metrics |-> Ptr([InuseSpace |-> 1 * BytesPerMB, GoroutineCount |-> 0])],
                [Time |-> 30, Metrics |-> Ptr([InuseSpace |-> 2 * BytesPerMB, GoroutineCount |-> 0])],
                [Time |-> 60, Metrics |-> Ptr([InuseSpace |-> 3 * BytesPerMB, GoroutineCount |-> 0])] >>]

HeapGroupNoisy ==
  [Type |-> "heap",
   Files |-> << [Time |-> 0, Metrics |-> Ptr([InuseSpace |-> 100 * BytesPerMB, GoroutineCount |-> 0])],
                [Time |-> 60, Metrics |-> Ptr([InuseSpace |-> 300 * BytesPerMB, GoroutineCount |-> 0])],
                [Time |-> 120, Metrics |-> Ptr([InuseSpace |-> 200 * BytesPerMB, GoroutineCount |-> 0])] >>]

HeapGroupFalling ==
  [Type |-> "heap",
   Files |-> << [Time |-> 0, Metrics |-> Ptr([InuseSpace |-> 300 * BytesPerMB, GoroutineCount |-> 0])],
                [Time |-> 60, Metrics |-> Ptr([InuseSpace |-> 200 * BytesPerMB, GoroutineCount |-> 0])],
                [Time |-> 120, Metrics |-> Ptr([InuseSpace |-> 100 * BytesPerMB, GoroutineCount |-> 0])] >>]

HeapGroupTwoFiles ==
  [Type |-> "heap",
   Files |-> << [Time |-> 0, Metrics |-> Ptr([InuseSpace |-> 100 * BytesPerMB, GoroutineCount |-> 0])],
                [Time |-> 60, Metrics |-> Ptr([InuseSpace |-> 200 * BytesPerMB, GoroutineCount |-> 0])] >>]

GoroutineGroup10To30 ==
  [Type |-> "goroutine",
   Files |-> << [Time |-> 0, Metrics |-> Ptr([InuseSpace |-> 0, GoroutineCount |-> 10])],
                [Time |-> 30, Metrics |-> Ptr([InuseSpace |-> 0, GoroutineCount |-> 20])],
                [Time |-> 60, Metrics |-> Ptr([InuseSpace |-> 0, GoroutineCount |-> 30])] >>]

\* in-use space growing by 5 bytes a sample
HeapGroupSlow ==
  [Type |-> "heap",
   Files |-> << [Time |-> 0, Metrics |-> Ptr([InuseSpace |-> 100, GoroutineCount |-> 0])],
                [Time |-> 60, Metrics |-> Ptr([InuseSpace |-> 105, GoroutineCount |-> 0])],
                [Time |-> 120, Metrics |-> Ptr([InuseSpace |-> 110, GoroutineCount |-> 0])] >>]

\* three files, one of them without metrics
HeapGroupTwoMetrics ==
  [Type |-> "heap",
   Files |-> << [Time |-> 0, Metrics |-> Ptr([InuseSpace |-> 100 * BytesPerMB, GoroutineCount |-> 0])],
                [Time |-> 60, Metrics |-> NilPtr],
                [Time |-> 120, Metrics |-> Ptr([InuseSpace |-> 300 * BytesPerMB, GoroutineCount |-> 0])] >>]

\* one goroutine more a sample
GoroutineGroupSlow ==
  [Type |-> "goroutine",
   Files |-> << [Time |-> 0, Metrics |-> Ptr([InuseSpace |-> 0, GoroutineCount |-> 10])],
                [Time |-> 30, Metrics |-> Ptr([InuseSpace |-> 0, GoroutineCount |-> 11])],
                [Time |-> 60, Metrics |-> Ptr([InuseSpace |-> 0, GoroutineCount |-> 12])] >>]

GoroutineGroupNoisy ==
  [Type |-> "goroutine",
   Files |-> << [Time |-> 0, Metrics |-> Ptr([InuseSpace |-> 0, GoroutineCount |-> 10])],
                [Time |-> 30, Metrics |-> Ptr([InuseSpace |-> 0, GoroutineCount |-> 30])],
                [Time |-> 60, Metrics |-> Ptr([InuseSpace |-> 0, GoroutineCount |-> 20])] >>]

CPUGroup ==
  [Type |-> "cpu",
   Files |-> << [Time |-> 0, Metrics |-> Ptr([InuseSpace |-> 0, GoroutineCount |-> 0])],
                [Time |-> 60, Metrics |-> Ptr([InuseSpace |-> 0, GoroutineCount |-> 0])],
                [Time |-> 120, Metrics |-> Ptr([InuseSpace |-> 0, GoroutineCount |-> 0])] >>]

GroupLists ==
  { << HeapGroup100To300 >>,
    << HeapGroup1To3 >>,
    << HeapGroupNoisy >>,
    << HeapGroupTwoFiles >>,
    << GoroutineGroup10To30, HeapGroupFalling >>,
    << HeapGroupTwoMetrics >>,
    << GoroutineGroupSlow, HeapGroupNoisy >>,
    << GoroutineGroupNoisy, HeapGroupSlow >>,
    << GoroutineGroup10To30, HeapGroupTwoFiles >>,
    << GoroutineGroup10To30, HeapGroup100To300 >>,
    << CPUGroup, HeapGroup100To300 >>,
    << CPUGroup, GoroutineGroup10To30, HeapGroup1To3 >> }

\* A component that takes no part in a run keeps its variables at Nil.
ClassifierIdle ==
  moduleName = Nil /\ thirdPartyPrefixes = Nil /\ packageName = Nil /\ category = Nil

TrendIdle == trendValues = Nil /\ trendResult = Nil

InsightsIdle == metrics = Nil /\ insights = Nil /\ TrendIdle

DetectIdle == profile = Nil /\ profileType = Nil

GroupingIdle == paths = Nil /\ fs = Nil /\ groups = Nil

CommandsIdle ==
  /\ cmdPaths = Nil /\ cmdType = Nil /\ cmdHotPaths = Nil
  /\ cmdEntry = Nil /\ commands = Nil

ChainsIdle ==
  extractSamples = Nil /\ extractArgs = Nil /\ callChains = Nil /\ aggregatedChains = Nil

AnalyzerIdle ==
  analyzer = Nil /\ profiles = Nil /\ hotPathType = Nil /\ hotPaths = Nil

LocatorIdle == AnalyzerIdle /\ ChainsIdle

EvaluateIdle ==
  /\ engine = Nil /\ evalGroups = Nil /\ evalTrends = Nil
  /\ collected = Nil /\ findings = Nil /\ contexts = Nil

LoadIdle == rulesFile = Nil /\ loadResult = Nil

EngineIdle == EvaluateIdle /\ LoadIdle

(***************************************************************************)
(* Runs of the classifier: a classifier is built from a configuration and  *)
(* Classify is called on a package name.                                   *)
(***************************************************************************)
InitClassifier ==
  /\ pc = "classifier"
  /\ moduleName \in ModuleNames
  /\ thirdPartyPrefixes \in PrefixLists
  /\ packageName \in PackageNames
  /\ category = Nil
  /\ InsightsIdle /\ DetectIdle /\ GroupingIdle /\ CommandsIdle
  /\ LocatorIdle /\ EngineIdle

DoClassify ==
  /\ pc = "classifier"
  /\ category' = Classify(NewClassifier(moduleName, thirdPartyPrefixes), packageName)
  /\ pc' = "classified"
  /\ UNCHANGED <<moduleName, thirdPartyPrefixes, packageName, insightVars, detectVars,
               groupingVars, commandVars, locatorVars, engineVars>>

NextClassifier == DoClassify

SpecClassifier == InitClassifier /\ [][NextClassifier]_vars

HasHostingPrefix(pkg) ==
  \E i \in 1..Len(thirdPartyDomains) : HasPrefix(pkg, thirdPartyDomains[i])

\* C7: with a module name configured, a package that begins with a hosting
\* prefix and is neither the module nor under `<module>/` is classified
\* third_party.
C7_HostingPrefixIsThirdParty ==
  (/\ pc = "classified"
   /\ moduleName # <<>>
   /\ HasHostingPrefix(packageName)
   /\ packageName # moduleName
   /\ ~HasPrefix(packageName, moduleName \o <<"/">>))
  => category = CategoryThirdParty

\* the package begins with a configured extra prefix or a hosting prefix
HasThirdPartyPrefix(pkg) ==
  \/ \E i \in 1..Len(thirdPartyPrefixes) : HasPrefix(pkg, thirdPartyPrefixes[i])
  \/ HasHostingPrefix(pkg)

\* the package is main, begins with `main.`, or is the module or under it
HasBusinessName(pkg) ==
  \/ pkg = <<"m","a","i","n">>
  \/ HasPrefix(pkg, <<"m","a","i","n",".">>)
  \/ (moduleName # <<>> /\ (pkg = moduleName \/ HasPrefix(pkg, moduleName \o <<"/">>)))

\* the categories whose rules the package of the run satisfies, in the
\* order of their priority
PriorityOrder ==
  << CategoryRuntime, CategoryStdlib, CategoryBusiness, CategoryThirdParty >>

SatisfiesRuleOf(cat) ==
  IF cat = CategoryRuntime
  THEN isRuntimePackage(NewClassifier(moduleName, thirdPartyPrefixes), packageName)
  ELSE IF cat = CategoryStdlib
  THEN isStdlibPackage(NewClassifier(moduleName, thirdPartyPrefixes), packageName)
  ELSE IF cat = CategoryBusiness THEN HasBusinessName(packageName)
  ELSE HasThirdPartyPrefix(packageName)

SatisfiedRanks == { r \in 1..Len(PriorityOrder) : SatisfiesRuleOf(PriorityOrder[r]) }

InitInsights ==
  /\ pc = "insights"
  /\ metrics \in HeapMetrics
  /\ insights = Nil
  /\ TrendIdle
  /\ ClassifierIdle /\ DetectIdle /\ GroupingIdle /\ CommandsIdle
  /\ LocatorIdle /\ EngineIdle

DoAnalyzeHeapInsights ==
  /\ pc = "insights"
  /\ insights' = AnalyzeHeapInsights(metrics)
  /\ pc' = "insights_done"
  /\ UNCHANGED <<metrics, trendVars, classifierVars, detectVars, groupingVars, commandVars, locatorVars, engineVars>>

NextInsights == DoAnalyzeHeapInsights

SpecInsights == InitInsights /\ [][NextInsights]_vars

GCInsightLevels ==
  { insights[i].Level : i \in { j \in 1..Len(insights) :
                                  insights[j].Title \in {TitleGCTooLow, TitleGCLow} } }

\* C9 (as stated): at AllocSpace = 10 MB, InuseSpace = 2 MB (rate 80 %) a
\* warning-level GC-reclaim insight and no critical one is emitted.
C9_WarningAtEighty ==
  (pc = "insights_done" /\ metrics.AllocSpace = 10 /\ metrics.InuseSpace = 2)
  => GCInsightLevels = {"warning"}

\* C9 (amended): at AllocSpace = 10 MB the rate of 80 % (InuseSpace = 2 MB)
\* yields no GC-reclaim insight, a rate strictly between 50 % and 80 %
\* (InuseSpace = 5 MB, 50 %) yields a warning and no critical one, and the
\* rate of 20 % (InuseSpace = 8 MB) yields a critical one and no warning.
C9_GCReclaimLevels ==
  (pc = "insights_done" /\ metrics.AllocSpace = 10)
  => /\ metrics.InuseSpace = 2 => GCInsightLevels = {}
     /\ metrics.InuseSpace = 5 => GCInsightLevels = {"warning"}
     /\ metrics.InuseSpace = 8 => GCInsightLevels = {"critical"}

C9_Witness ==
  /\ pc = "insights_done"
  /\ metrics.AllocSpace = 10
  /\ metrics.InuseSpace = 2
  /\ GCInsightLevels = {}

(***************************************************************************)
(* Runs of the type detection.                                             *)
(***************************************************************************)
InitDetect ==
  /\ pc = "detect"
  /\ profile \in [SampleType : SampleTypeLists, DurationNanos : Durations]
  /\ profileType = Nil
  /\ ClassifierIdle /\ InsightsIdle /\ GroupingIdle /\ CommandsIdle
  /\ LocatorIdle /\ EngineIdle

DoDetectProfileType ==
  /\ pc = "detect"
  /\ profileType' = detectProfileType(profile)
  /\ pc' = "detected"
  /\ UNCHANGED <<profile, classifierVars, insightVars, groupingVars, commandVars, locatorVars, engineVars>>

NextDetect == DoDetectProfileType

SpecDetect == InitDetect /\ [][NextDetect]_vars

IsCPUEntry(st) ==
  /\ toLowerString(st.Type) \in {<<"c","p","u">>, <<"s","a","m","p","l","e","s">>}
  /\ toLowerString(st.Unit) \in {<<"n","a","n","o","s","e","c","o","n","d","s">>, <<"c","o","u","n","t">>}

IsHeapEntry(st) ==
  toLowerString(st.Type) \in
    {<<"a","l","l","o","c","_","o","b","j","e","c","t","s">>, <<"a","l","l","o","c","_","s","p","a","c","e">>, <<"i","n","u","s","e","_","o","b","j","e","c","t","s">>, <<"i","n","u","s","e","_","s","p","a","c","e">>}

IsGoroutineEntry(st) ==
  toLowerString(st.Type) = <<"g","o","r","o","u","t","i","n","e">> \/ toLowerString(st.Unit) = <<"g","o","r","o","u","t","i","n","e">>

IsBlockEntry(st) ==
  toLowerString(st.Type) \in {<<"c","o","n","t","e","n","t","i","o","n","s">>, <<"d","e","l","a","y">>}

\* the kinds an entry matches, and the entries that match some kind
EntryKinds(st) ==
  (IF IsCPUEntry(st) THEN {"cpu"} ELSE {}) \cup (IF IsHeapEntry(st) THEN {"heap"} ELSE {})
    \cup (IF IsGoroutineEntry(st) THEN {"goroutine"} ELSE {})
    \cup (IF IsBlockEntry(st) THEN {"block"} ELSE {})

MatchingEntries(p) == { i \in 1..Len(p.SampleType) : EntryKinds(p.SampleType[i]) # {} }

\* C6 (as stated): cpu whenever any entry is a cpu entry or the duration is
\* non-zero; heap, goroutine and block only when neither holds.
C6_CPUWheneverAnyEntryOrDuration ==
  pc = "detected"
  => LET cpuCase == \/ \E i \in 1..Len(profile.SampleType) : IsCPUEntry(profile.SampleType[i])
                    \/ profile.DurationNanos # 0
     IN  /\ cpuCase => profileType = "cpu"
         /\ profileType \in {"heap", "goroutine", "block"} => ~cpuCase

\* C6 (amended): the first entry, in order, that matches any kind decides: the
\* result is cpu when that entry is a cpu entry, or when no entry matches and
\* the duration is positive; heap, goroutine or block when that entry is of
\* that kind (and, for an entry of several kinds, of no kind checked earlier),
\* whatever later entries and the duration are; unknown otherwise.
C6_FirstMatchingEntryDecides ==
  pc = "detected"
  => IF MatchingEntries(profile) = {}
     THEN profileType = (IF profile.DurationNanos > 0 THEN "cpu" ELSE "unknown")
     ELSE LET first == CHOOSE i \in MatchingEntries(profile) :
                         \A j \in MatchingEntries(profile) : i <= j
              kinds == EntryKinds(profile.SampleType[first])
          IN  profileType = (IF "cpu" \in kinds THEN "cpu"
                             ELSE IF "heap" \in kinds THEN "heap"
                             ELSE IF "goroutine" \in kinds THEN "goroutine"
                             ELSE "block")

\* a heap entry before a cpu entry, with a non-zero duration: heap
C6_Witness ==
  /\ pc = "detected"
  /\ Len(profile.SampleType) = 2
  /\ IsHeapEntry(profile.SampleType[1]) /\ IsCPUEntry(profile.SampleType[2])
  /\ profile.DurationNanos > 0
  /\ profileType = "heap"

(***************************************************************************)
(* Runs of the grouper: GroupProfiles is called on a list of paths.        *)
(***************************************************************************)
InitGrouping ==
  /\ pc = "grouping"
  /\ paths \in PathLists
  /\ fs \in [PathNames -> FileKinds]
  /\ groups = Nil
  /\ ClassifierIdle /\ InsightsIdle /\ DetectIdle /\ CommandsIdle
  /\ LocatorIdle /\ EngineIdle

DoGroupProfiles ==
  /\ pc = "grouping"
  /\ groups' \in GroupProfiles(paths, fs)
  /\ pc' = "grouped"
  /\ UNCHANGED <<paths, fs, classifierVars, insightVars, detectVars, commandVars, locatorVars, engineVars>>

NextGrouping == DoGroupProfiles

SpecGrouping == InitGrouping /\ [][NextGrouping]_vars

\* C10 (as stated): in every group the files are strictly ascending by time.
C10_StrictlyAscending ==
  pc = "grouped"
  => \A g \in 1..Len(groups) : \A i \in 1..(Len(groups[g].Files) - 1) :
       Before(groups[g].Files[i].Time, groups[g].Files[i + 1].Time)

\* C10 (amended): in every group the files are in non-decreasing order of
\* time: no file is before the file that precedes it (two files of a group
\* can carry the same timestamp).
C10_NonDecreasing ==
  pc = "grouped"
  => \A g \in 1..Len(groups) : \A i \in 1..(Len(groups[g].Files) - 1) :
       ~Before(groups[g].Files[i + 1].Time, groups[g].Files[i].Time)

\* a group of three files loaded out of order, two of them at the same time
C10_Witness ==
  /\ pc = "grouped"
  /\ \E g \in 1..Len(groups) :
       /\ Len(groups[g].Files) = 3
       /\ groups[g].Files[1].Time = groups[g].Files[2].Time
       /\ Before(groups[g].Files[2].Time, groups[g].Files[3].Time)
       /\ groups[g].Files[3].Path = paths[1]

\* the paths in another order
Reordered(pathList, perm) == [i \in 1..Len(pathList) |-> pathList[perm[i]]]

\* C11: GroupProfiles is permutation-invariant: called on any ordering of
\* the paths it was called on, it returns the groups it returned, in the
\* same order and with the same order of the files inside each group.
C11_PermutationInvariant ==
  pc = "grouped"
  => \A perm \in IndexPermutations(Len(paths)) :
       GroupProfiles(Reordered(paths, perm), fs) = { groups }

(***************************************************************************)
(* Runs of the command generator: one of its three entry points is called. *)
(* GenerateCommands and GenerateCommandsForProfileType take one path ("":  *)
(* none supplied), GenerateCommandsWithContext a list of paths.            *)
(***************************************************************************)
InitCommands ==
  /\ pc = "commands"
  /\ cmdPaths \in ProfilePathLists
  /\ cmdType \in CommandProfileTypes
  /\ cmdHotPaths \in HotPathLists
  /\ cmdEntry = Nil
  /\ commands = Nil
  /\ ClassifierIdle /\ InsightsIdle /\ DetectIdle /\ GroupingIdle /\ LocatorIdle /\ EngineIdle

SinglePath == IF Len(cmdPaths) = 0 THEN << >> ELSE cmdPaths[1]

DoGenerateCommands ==
  /\ pc = "commands"
  /\ Len(cmdPaths) <= 1
  /\ commands' = GenerateCommands(SinglePath, cmdType, cmdHotPaths)
  /\ cmdEntry' = "GenerateCommands"
  /\ pc' = "commands_done"
  /\ UNCHANGED <<cmdPaths, cmdType, cmdHotPaths>>
  /\ UNCHANGED <<classifierVars, insightVars, detectVars, groupingVars, locatorVars, engineVars>>

DoGenerateCommandsForProfileType ==
  /\ pc = "commands"
  /\ Len(cmdPaths) <= 1
  /\ commands' = GenerateCommandsForProfileType(SinglePath, cmdType, cmdHotPaths)
  /\ cmdEntry' = "GenerateCommandsForProfileType"
  /\ pc' = "commands_done"
  /\ UNCHANGED <<cmdPaths, cmdType, cmdHotPaths>>
  /\ UNCHANGED <<classifierVars, insightVars, detectVars, groupingVars, locatorVars, engineVars>>

DoGenerateCommandsWithContext ==
  /\ pc = "commands"
  /\ commands' = GenerateCommandsWithContext(cmdPaths, cmdType, cmdHotPaths)
  /\ cmdEntry' = "GenerateCommandsWithContext"
  /\ pc' = "commands_done"
  /\ UNCHANGED <<cmdPaths, cmdType, cmdHotPaths>>
  /\ UNCHANGED <<classifierVars, insightVars, detectVars, groupingVars, locatorVars, engineVars>>

NextCommands ==
  \/ DoGenerateCommands
  \/ DoGenerateCommandsForProfileType
  \/ DoGenerateCommandsWithContext

SpecCommands == InitCommands /\ [][NextCommands]_vars

\* the paths a command may name: the supplied ones, or the placeholder
SuppliedPaths ==
  IF Len(cmdPaths) = 0 THEN { DefaultProfilePath(cmdType) }
  ELSE { cmdPaths[i] : i \in 1..Len(cmdPaths) }

\* C8 (as stated): every command begins with `go tool pprof` and contains
\* exactly one of the supplied profile paths (or the placeholder).
C8_ExactlyOneSuppliedPath ==
  pc = "commands_done"
  => \A i \in 1..Len(commands) :
       /\ HasPrefix(commands[i].Command, GoToolPprof)
       /\ Cardinality({ p \in SuppliedPaths : StringsContains(commands[i].Command, p) }) = 1

\* C8 (the half that needs no counting): every command begins with
\* `go tool pprof` and contains a supplied profile path, or the placeholder
\* when none is supplied.
C8_CommandNamesASuppliedPath ==
  pc = "commands_done"
  => \A i \in 1..Len(commands) :
       /\ HasPrefix(commands[i].Command, GoToolPprof)
       /\ \E p \in SuppliedPaths : StringsContains(commands[i].Command, p)

(***************************************************************************)
(* Runs of the path analyzer: it is created from a configuration and       *)
(* analyses one profile, or a list of profiles.                            *)
(***************************************************************************)
InitLocator ==
  /\ pc = "locator"
  /\ \E config \in LocatorConfigs : analyzer = NewPathAnalyzer(LocatorClassifier, config)
  /\ profiles \in ProfileLists
  /\ hotPathType \in LocatorProfileTypes
  /\ hotPaths = Nil
  /\ ClassifierIdle /\ InsightsIdle /\ DetectIdle /\ GroupingIdle /\ CommandsIdle
  /\ ChainsIdle /\ EngineIdle

DoAnalyzeHotPaths ==
  /\ pc = "locator"
  /\ Len(profiles) = 1
  /\ hotPaths' \in AnalyzeHotPaths(analyzer, profiles[1], hotPathType)
  /\ pc' = "locator_done"
  /\ UNCHANGED <<analyzer, profiles, hotPathType>>
  /\ UNCHANGED <<classifierVars, insightVars, detectVars, groupingVars, commandVars,
                 chainVars, engineVars>>

DoAnalyzeMultipleProfiles ==
  /\ pc = "locator"
  /\ hotPaths' \in AnalyzeMultipleProfiles(analyzer, profiles, hotPathType)
  /\ pc' = "locator_done"
  /\ UNCHANGED <<analyzer, profiles, hotPathType>>
  /\ UNCHANGED <<classifierVars, insightVars, detectVars, groupingVars, commandVars,
                 chainVars, engineVars>>

NextLocator ==
  \/ DoAnalyzeHotPaths
  \/ DoAnalyzeMultipleProfiles

SpecLocator == InitLocator /\ [][NextLocator]_vars

\* the chains with the map ranged over in the order the keys were first seen
AggregatedInFirstSeenOrder(chains) ==
  LET entries == aggregateInOrder(chains, 1, << >>)
  IN  [i \in 1..Len(entries) |-> entries[i].chain]

\* the descending order that keeps chains of equal TotalValue as they were
StableSortByTotalValue(aggregated) ==
  CHOOSE sorted \in SortedByTotalValue(aggregated) :
    \A i, j \in 1..Len(aggregated) :
      (i < j /\ aggregated[i].TotalValue = aggregated[j].TotalValue)
        => \E k, l \in 1..Len(sorted) :
             k < l /\ sorted[k] = aggregated[i] /\ sorted[l] = aggregated[j]

\* the hot paths of the run with ties in the order the keys were first seen
HotPathsInFirstSeenOrder ==
  IF Len(profiles) = 0 THEN << >>
  ELSE LET choice == ChooseValueIndex(profiles[1], hotPathType)
           chains == allChainsOf(analyzer, profiles, choice)
       IN  topHotPaths(analyzer,
                       StableSortByTotalValue(AggregatedInFirstSeenOrder(chains)),
                       hotPathType)

SamePathsApartFromPct(hps, expected) ==
  /\ Len(hps) = Len(expected)
  /\ \A i \in 1..Len(hps) :
       [hps[i] EXCEPT !.Chain.TotalPct = 0] = [expected[i] EXCEPT !.Chain.TotalPct = 0]

\* C4: the hot paths are in descending order of TotalValue, and hot paths of
\* equal TotalValue are in the order in which their keys were first seen
\* among the samples.
C4_DescendingTiesInFirstSeenOrder ==
  pc = "locator_done"
  => /\ \A i, j \in 1..Len(hotPaths) :
          i < j => hotPaths[i].Chain.TotalValue >= hotPaths[j].Chain.TotalValue
     /\ SamePathsApartFromPct(hotPaths, HotPathsInFirstSeenOrder)

\* the half of C4 about TotalValue alone
LocatorDescendingByTotalValue ==
  pc = "locator_done"
  => \A i, j \in 1..Len(hotPaths) :
       i < j => hotPaths[i].Chain.TotalValue >= hotPaths[j].Chain.TotalValue

\* the indices (from 0) of the business frames of a hot path
BusinessIndices(hp) ==
  { i \in 0..(Len(hp.Chain.Frames) - 1) : hp.Chain.Frames[i + 1].Category = CategoryBusiness }

\* C12: in every hot path returned, BusinessFrames is exactly the ascending
\* list of the indices of the frames of category business, and
\* RootCauseIndex is -1 if and only if there is none, otherwise the last
\* element of the list.
C12_BusinessFramesAndRootCause ==
  pc = "locator_done"
  => \A h \in 1..Len(hotPaths) :
       /\ { hotPaths[h].BusinessFrames[k] : k \in 1..Len(hotPaths[h].BusinessFrames) }
            = BusinessIndices(hotPaths[h])
       /\ \A k, l \in 1..Len(hotPaths[h].BusinessFrames) :
            k < l => hotPaths[h].BusinessFrames[k] < hotPaths[h].BusinessFrames[l]
       /\ (hotPaths[h].RootCauseIndex = -1) <=> (BusinessIndices(hotPaths[h]) = {})
       /\ BusinessIndices(hotPaths[h]) # {}
            => hotPaths[h].RootCauseIndex
                 = hotPaths[h].BusinessFrames[Len(hotPaths[h].BusinessFrames)]

\* a run that returns a hot path with two business frames, one whose entry
\* frame is its only business frame and one without business frames
C12_Witness ==
  /\ pc = "locator_done"
  /\ \E h \in 1..Len(hotPaths) : hotPaths[h].BusinessFrames = << 0, 1 >>
  /\ \E h \in 1..Len(hotPaths) :
       hotPaths[h].BusinessFrames = << 0 >> /\ Len(hotPaths[h].Chain.Frames) = 2
  /\ \E h \in 1..Len(hotPaths) : hotPaths[h].RootCauseIndex = -1

\* C15: with MaxCallStackDepth = N >= 1 and MaxHotPaths = M >= 1 configured,
\* AnalyzeHotPaths and AnalyzeMultipleProfiles return at most M hot paths,
\* and every hot path returned has at most N frames.
C15_WithinConfiguredLimits ==
  (/\ pc = "locator_done"
   /\ analyzer.config.MaxCallStackDepth >= 1
   /\ analyzer.config.MaxHotPaths >= 1)
  => /\ Len(hotPaths) <= analyzer.config.MaxHotPaths
     /\ \A h \in 1..Len(hotPaths) :
          Len(hotPaths[h].Chain.Frames) <= analyzer.config.MaxCallStackDepth

\* three samples of three keys analysed with N = 1 and M = 2: two hot paths
\* come back, one of them the chain runtime.main -> main.f cut to its entry
C15_Witness ==
  /\ pc = "locator_done"
  /\ analyzer.config.MaxCallStackDepth = 1
  /\ analyzer.config.MaxHotPaths = 2
  /\ Len(profiles) = 1
  /\ Len(profiles[1].Sample) = 3
  /\ Len(hotPaths) = 2
  /\ \E h \in 1..Len(hotPaths) :
       hotPaths[h].Chain.Frames[1].FunctionName
         = <<"r","u","n","t","i","m","e",".","m","a","i","n">>

(***************************************************************************)
(* Runs of the extractor and the aggregation: ExtractCallChain is called   *)
(* on one sample after another, then AggregateCallChains on the chains.    *)
(***************************************************************************)
InitChains ==
  /\ pc = "chains"
  /\ extractSamples \in SampleLists
  /\ extractArgs \in ExtractArgs
  /\ callChains = << >>
  /\ aggregatedChains = Nil
  /\ ClassifierIdle /\ InsightsIdle /\ DetectIdle /\ GroupingIdle /\ CommandsIdle
  /\ AnalyzerIdle /\ EngineIdle

DoExtractCallChain ==
  /\ pc = "chains"
  /\ Len(callChains) < Len(extractSamples)
  /\ callChains' = Append(callChains,
                      ExtractCallChain(LocatorClassifier, extractSamples[Len(callChains) + 1],
                                       extractArgs.valueIndex, extractArgs.totalValue))
  /\ UNCHANGED <<pc, extractSamples, extractArgs, aggregatedChains>>
  /\ UNCHANGED <<classifierVars, insightVars, detectVars, groupingVars, commandVars,
                 analyzer, profiles, hotPathType, hotPaths, engineVars>>

DoAggregateCallChains ==
  /\ pc = "chains"
  /\ Len(callChains) = Len(extractSamples)
  /\ aggregatedChains' \in AggregateCallChains(callChains)
  /\ pc' = "chains_done"
  /\ UNCHANGED <<extractSamples, extractArgs, callChains>>
  /\ UNCHANGED <<classifierVars, insightVars, detectVars, groupingVars, commandVars,
                 analyzer, profiles, hotPathType, hotPaths, engineVars>>

NextChains ==
  \/ DoExtractCallChain
  \/ DoAggregateCallChains

SpecChains == InitChains /\ [][NextChains]_vars

\* each location of the sample bears one line
OneLineEach(sample) ==
  \A l \in 1..Len(sample.Location) : Len(sample.Location[l]) = 1

RECURSIVE SumOfCounts(_, _)
SumOfCounts(breakdown, cats) ==
  IF cats = {} THEN 0
  ELSE LET c == CHOOSE x \in cats : TRUE
       IN  breakdown[c] + SumOfCounts(breakdown, cats \ { c })

\* C13: for a sample with k locations that bear one line each, the chain of
\* ExtractCallChain has k frames in reversed order (frame 0 from the last
\* location, frame k-1 from the first), the counts of its CategoryBreakdown
\* sum to k, and its BoundaryPoints are exactly the indices i >= 1 at which
\* the category differs from that of frame i-1, in strictly ascending order.
C13_FramesReversedAndBoundaries ==
  \A c \in 1..Len(callChains) :
    OneLineEach(extractSamples[c])
    => /\ Len(callChains[c].Frames) = Len(extractSamples[c].Location)
       /\ \A i \in 1..Len(callChains[c].Frames) :
            callChains[c].Frames[i]
              = ExtractStackFrame(LocatorClassifier,
                                  extractSamples[c].Location[Len(extractSamples[c].Location) + 1 - i][1])
       /\ SumOfCounts(callChains[c].CategoryBreakdown, DOMAIN callChains[c].CategoryBreakdown)
            = Len(extractSamples[c].Location)
       /\ { callChains[c].BoundaryPoints[b] : b \in 1..Len(callChains[c].BoundaryPoints) }
            = { i \in 1..(Len(callChains[c].Frames) - 1) :
                  callChains[c].Frames[i + 1].Category # callChains[c].Frames[i].Category }
       /\ \A a, b \in 1..Len(callChains[c].BoundaryPoints) :
            a < b => callChains[c].BoundaryPoints[a] < callChains[c].BoundaryPoints[b]

\* a chain of four frames with the boundaries 1 and 3, extracted from a
\* sample of four locations
C13_Witness ==
  \E c \in 1..Len(callChains) :
    /\ OneLineEach(extractSamples[c])
    /\ Len(extractSamples[c].Location) = 4
    /\ callChains[c].BoundaryPoints = << 1, 3 >>
    /\ callChains[c].Frames[1].FunctionName = <<"r","u","n","t","i","m","e",".","m","a","i","n">>

RECURSIVE SumOfTotalValues(_)
SumOfTotalValues(chainList) ==
  IF Len(chainList) = 0 THEN 0
  ELSE chainList[1].TotalValue + SumOfTotalValues(Tail(chainList))

\* the chains handed to AggregateCallChains have one key
ShareOneKey(chainList) ==
  \A a, b \in 1..Len(chainList) :
    generateSmartCallChainKey(chainList[a].Frames)
      = generateSmartCallChainKey(chainList[b].Frames)

InitEngine ==
  /\ pc = "engine"
  /\ evalGroups \in GroupLists
  /\ evalTrends = DriverTrends(evalGroups)
  /\ \E ruleList \in RuleLists, crossList \in CrossRuleLists :
       engine = [rules |-> ruleList, crossAnalysisRules |-> crossList]
  /\ collected = Nil
  /\ findings = Nil
  /\ contexts = Nil
  /\ LoadIdle
  /\ ClassifierIdle /\ InsightsIdle /\ DetectIdle /\ GroupingIdle /\ CommandsIdle
  /\ LocatorIdle

DoEvaluate ==
  /\ pc \in { "engine", "evaluated" }
  /\ collected' = collectFindings(engine, evalGroups, evalTrends)
  /\ findings' \in deduplicateFindings(collected')
  /\ pc' = "evaluated"
  /\ UNCHANGED <<engine, evalGroups, evalTrends, contexts, loadVars>>
  /\ UNCHANGED <<classifierVars, insightVars, detectVars, groupingVars, commandVars,
                 locatorVars>>

\* The map generateProblemContexts fills, finding after finding.  Of a
\* ProblemContext the title is kept; its other fields (severity, explanation,
\* impact, hot paths, commands, suggestions) are made of the finding and the
\* profiles and bear neither on the key nor on the title.
RECURSIVE putContexts(_, _, _)
putContexts(found, i, ctxs) ==
  IF i > Len(found) THEN ctxs
  ELSE putContexts(found, i + 1,
         [id \in (DOMAIN ctxs) \cup { found[i].RuleID } |->
            IF id = found[i].RuleID THEN [Title |-> found[i].Title] ELSE ctxs[id]])

\* nil, the map without keys, when there are no findings
generateProblemContexts(found) ==
  IF Len(found) = 0 THEN << >>
  ELSE putContexts(found, 1, << >>)

\* the driver hands the findings of Evaluate to generateProblemContexts
DoGenerateProblemContexts ==
  /\ pc = "evaluated"
  /\ contexts' = generateProblemContexts(findings)
  /\ pc' = "contexts_done"
  /\ UNCHANGED <<engine, evalGroups, evalTrends, collected, findings, loadVars>>
  /\ UNCHANGED <<classifierVars, insightVars, detectVars, groupingVars, commandVars,
                 locatorVars>>

NextEngine ==
  \/ DoEvaluate
  \/ DoGenerateProblemContexts

SpecEngine == InitEngine /\ [][NextEngine]_vars

CrossFindings(found) == SelectSeq(found, LAMBDA f : f.IsCrossAnalysis)

SingleFindings(found) == SelectSeq(found, LAMBDA f : ~f.IsCrossAnalysis)

\* the title carries the keyword: a pattern of the keyword is part of the
\* title, whatever the case of the letters
TitleCarries(title, keyword) ==
  \E i \in 1..Len(keywordPatterns[keyword]) :
    StringsContains(toLowerString(title), toLowerString(keywordPatterns[keyword][i]))

\* C1: if the result holds a cross-analysis finding whose title carries a
\* keyword, it holds no single-type finding whose title carries that keyword.
C1_CrossKeywordSuppressesSingles ==
  pc = "evaluated"
  => \A i, j \in 1..Len(findings) :
       (findings[i].IsCrossAnalysis /\ ~findings[j].IsCrossAnalysis)
         => \A keyword \in DOMAIN keywordPatterns :
              ~(TitleCarries(findings[i].Title, keyword)
                  /\ TitleCarries(findings[j].Title, keyword))

\* C2: Evaluate returns the same findings in the same order whenever it is
\* called again with the same rules, groups and trends.
C2_EvaluateIsDeterministic ==
  [][(pc = "evaluated" /\ pc' = "evaluated") => findings' = findings]_vars

RECURSIVE IsSubsequence(_, _)
IsSubsequence(s, t) ==
  IF Len(s) = 0 THEN TRUE
  ELSE IF Len(t) = 0 THEN FALSE
  ELSE IF s[1] = t[1] THEN IsSubsequence(Tail(s), Tail(t))
  ELSE IsSubsequence(s, Tail(t))

\* C3 (as stated): the surviving findings are in the result in the order in
\* which they were collected, single-type findings before cross-analysis
\* findings.
C3_SurvivorsInCollectedOrder ==
  pc = "evaluated" => IsSubsequence(findings, collected)

\* C3 (amended): in the result the surviving cross-analysis findings come
\* first and the surviving single-type findings after them, and within each
\* of the two kinds the survivors are in the order in which they were
\* collected.
C3_CrossFirstOrderKeptWithinKind ==
  pc = "evaluated"
  => /\ findings = CrossFindings(findings) \o SingleFindings(findings)
     /\ IsSubsequence(CrossFindings(findings), CrossFindings(collected))
     /\ IsSubsequence(SingleFindings(findings), SingleFindings(collected))

\* a finding was removed, and two single-type findings and a cross-analysis
\* finding survive
C3_Witness ==
  /\ pc = "evaluated"
  /\ Len(findings) < Len(collected)
  /\ Len(SingleFindings(findings)) >= 2
  /\ Len(CrossFindings(findings)) >= 1

\* the run of seed scenario S1: three heap profiles 60 s apart with 100, 200
\* and 300 MB in use, and the memory growth rule among the rules
SeedScenarioS1 ==
  /\ evalGroups = << HeapGroup100To300 >>
  /\ \E r \in 1..Len(engine.rules) : engine.rules[r] = MemoryGrowthRule

MemoryGrowthFindings ==
  SelectSeq(findings, LAMBDA f : f.RuleID = MemoryGrowthRule.ID)

HeapTrendIsIncreasing ==
  /\ "heap" \in DOMAIN evalTrends
  /\ Deref(evalTrends["heap"]).HeapInuse # NilPtr
  /\ Deref(Deref(evalTrends["heap"]).HeapInuse).Direction = Increasing

\* C5 (as stated): in scenario S1 the heap trend is increasing, the memory
\* growth rule gives a finding and {{.slope}} in its evidence is `2.00 MB`.
C5_SlopeEvidenceTwoMB ==
  (pc = "evaluated" /\ SeedScenarioS1)
  => /\ HeapTrendIsIncreasing
     /\ Len(MemoryGrowthFindings) = 1
     /\ MemoryGrowthFindings[1].Evidence.slope = <<"2",".","0","0"," ","M","B">>

\* C5 (amended): in scenario S1 the heap trend is increasing, the memory
\* growth rule gives a finding and {{.slope}} in its evidence is `100.00 MB`:
\* 100 MB a sample over two intervals in two minutes.
C5_SlopeEvidenceHundredMB ==
  (pc = "evaluated" /\ SeedScenarioS1)
  => /\ HeapTrendIsIncreasing
     /\ Len(MemoryGrowthFindings) = 1
     /\ MemoryGrowthFindings[1].Evidence.slope = <<"1","0","0",".","0","0"," ","M","B">>
     /\ MemoryGrowthFindings[1].Evidence.r2 = <<"1",".","0","0">>

C5_Witness ==
  /\ pc = "evaluated"
  /\ SeedScenarioS1
  /\ Len(MemoryGrowthFindings) = 1
  /\ MemoryGrowthFindings[1].Title = MemoryGrowthRule.Actions[1].Title
  /\ MemoryGrowthFindings[1].Evidence.slope = <<"1","0","0",".","0","0"," ","M","B">>

\* the trends the run holds for the type of a group (nil if none)
TrendsOf(group) ==
  IF group.Type \in DOMAIN evalTrends THEN evalTrends[group.Type] ELSE NilPtr

HeapTrendSignificant(group) ==
  /\ TrendsOf(group) # NilPtr
  /\ Deref(TrendsOf(group)).HeapInuse # NilPtr
  /\ RatLess(Rat(85, 100), Deref(Deref(TrendsOf(group)).HeapInuse).R2)
  /\ RatLess(Float(10), Deref(Deref(TrendsOf(group)).HeapInuse).Slope)
  /\ Len(group.Files) >= 3

GoroutineTrendSignificant(group) ==
  /\ TrendsOf(group) # NilPtr
  /\ Deref(TrendsOf(group)).GoroutineCount # NilPtr
  /\ RatLess(Rat(9, 10), Deref(Deref(TrendsOf(group)).GoroutineCount).R2)
  /\ RatLess(Float(1), Deref(Deref(TrendsOf(group)).GoroutineCount).Slope)
  /\ Len(group.Files) >= 3

Mentions(condition, word) == StringsContains(condition, word)

HeapOnlyCondition(condition) ==
  /\ Mentions(condition, <<"h","e","a","p","_","i","n","u","s","e">>)
  /\ Mentions(condition, <<"s","l","o","p","e">>)
  /\ ~Mentions(condition, <<"g","o","r","o","u","t","i","n","e","_","c","o","u","n","t">>)

GoroutineOnlyCondition(condition) ==
  /\ Mentions(condition, <<"g","o","r","o","u","t","i","n","e","_","c","o","u","n","t">>)
  /\ Mentions(condition, <<"s","l","o","p","e">>)
  /\ ~Mentions(condition, <<"h","e","a","p","_","i","n","u","s","e">>)

\* the single-type rule has findings among those Evaluate collected
YieldsFindings(rule) ==
  \E i \in 1..Len(collected) : ~collected[i].IsCrossAnalysis /\ collected[i].RuleID = rule.ID

\* C17: a single-type rule applicable to a heap group, whose condition
\* mentions heap_inuse and slope and not goroutine_count, yields findings if
\* and only if the heap trend of the group is present with R2 > 0.85 and
\* slope > 10 and the group has at least 3 files; a rule on goroutine_count
\* applicable to a goroutine group yields findings if and only if the
\* goroutine trend is present with R2 > 0.9 and slope > 1 and the group has
\* at least 3 files.
C17_TrendRulesFireOnSignificantTrends ==
  pc = "evaluated"
  => \A r \in 1..Len(engine.rules) : \A g \in 1..Len(evalGroups) :
       /\ (/\ evalGroups[g].Type = "heap"
           /\ matchesProfileType(engine.rules[r], "heap")
           /\ HeapOnlyCondition(engine.rules[r].Condition))
            => (YieldsFindings(engine.rules[r]) <=> HeapTrendSignificant(evalGroups[g]))
       /\ (/\ evalGroups[g].Type = "goroutine"
           /\ matchesProfileType(engine.rules[r], "goroutine")
           /\ GoroutineOnlyCondition(engine.rules[r].Condition))
            => (YieldsFindings(engine.rules[r])
                  <=> GoroutineTrendSignificant(evalGroups[g]))

\* a run with a heap rule and a goroutine rule that both yield findings
C17_Witness ==
  /\ pc = "evaluated"
  /\ Len(engine.rules) = 2
  /\ HeapOnlyCondition(engine.rules[1].Condition)
  /\ GoroutineOnlyCondition(engine.rules[2].Condition)
  /\ YieldsFindings(engine.rules[1])
  /\ YieldsFindings(engine.rules[2])
  /\ \E g \in 1..Len(evalGroups) : HeapTrendSignificant(evalGroups[g])
  /\ \E g \in 1..Len(evalGroups) : GoroutineTrendSignificant(evalGroups[g])

\* a run in which neither rule yields findings: the heap trend has a low R2
\* and the goroutine trend a slope of 1
C17_NoFindingsReached ==
  /\ pc = "evaluated"
  /\ Len(engine.rules) = 2
  /\ HeapOnlyCondition(engine.rules[1].Condition)
  /\ GoroutineOnlyCondition(engine.rules[2].Condition)
  /\ ~YieldsFindings(engine.rules[1])
  /\ ~YieldsFindings(engine.rules[2])
  /\ Len(evalGroups) = 2
  /\ \A g \in 1..Len(evalGroups) : TrendsOf(evalGroups[g]) # NilPtr

\* the word by which a condition refers to the trend of a group
TrendWord(group) ==
  IF group.Type = "heap" THEN <<"h","e","a","p","_","i","n","u","s","e">>
  ELSE <<"g","o","r","o","u","t","i","n","e","_","c","o","u","n","t">>

\* the returned finding comes from a single-type rule whose condition
\* mentions the trend of the group
FromSingleRuleOn(finding, group) ==
  /\ ~finding.IsCrossAnalysis
  /\ \E r \in 1..Len(engine.rules) :
       /\ engine.rules[r].ID = finding.RuleID
       /\ Mentions(engine.rules[r].Condition, TrendWord(group))

\* the returned finding comes from a cross-analysis rule with a condition
\* for the type of the group
FromCrossRuleOn(finding, group) ==
  /\ finding.IsCrossAnalysis
  /\ \E r \in 1..Len(engine.crossAnalysisRules) :
       /\ engine.crossAnalysisRules[r].ID = finding.RuleID
       /\ group.Type \in DOMAIN engine.crossAnalysisRules[r].Conditions

SmallTrendGroups ==
  { g \in 1..Len(evalGroups) :
      /\ evalGroups[g].Type \in { "heap", "goroutine" }
      /\ Len(evalGroups[g].Files) < 3 }

\* C18: for a group with fewer than 3 files CalculateTrends returns no
\* trends, the trends map of the run has no entry for the type of the group,
\* and Evaluate returns no finding of a single-type or cross-analysis rule
\* whose condition depends on the heap or goroutine trend of that group.
C18_NoFindingsBelowThreeFiles ==
  pc = "evaluated"
  => \A g \in SmallTrendGroups :
       /\ CalculateTrends(evalGroups[g]) = NilPtr
       /\ evalGroups[g].Type \notin DOMAIN evalTrends
       /\ \A i \in 1..Len(findings) :
            /\ ~FromSingleRuleOn(findings[i], evalGroups[g])
            /\ ~FromCrossRuleOn(findings[i], evalGroups[g])

\* the part of C18 on CalculateTrends, the trends map, the cross-analysis
\* rules and the single-type rules applied to the group itself
C18_NoTrendsNoCrossFindings ==
  pc = "evaluated"
  => \A g \in SmallTrendGroups :
       /\ CalculateTrends(evalGroups[g]) = NilPtr
       /\ evalGroups[g].Type \notin DOMAIN evalTrends
       /\ \A i \in 1..Len(findings) : ~FromCrossRuleOn(findings[i], evalGroups[g])
       /\ \A r \in 1..Len(engine.rules) :
            matchesProfileType(engine.rules[r], evalGroups[g].Type)
              => ~evaluateCondition(engine.rules[r].Condition, evalGroups[g],
                                    TrendsOf(evalGroups[g]))

(***************************************************************************)
(* Loading the rules (NewEngine).  A rules file is its path, what reading   *)
(* it gives, and the RulesConfig the YAML decodes to: a field the document  *)
(* leaves out is the zero value of its type.                                *)
(***************************************************************************)
NoError == NilPtr

Errorf(message) == Ptr(message)

\* the checks on the rule at index i of config.Rules
validateRule(i, rule) ==
  IF rule.ID = << >>
  THEN Errorf(<<"r","u","l","e"," ">> \o IntToString(i) \o <<":"," ","m","i","s","s","i","n","g"," ","i","d">>)
  ELSE IF rule.Name = ""
  THEN Errorf(<<"r","u","l","e"," ">> \o rule.ID \o <<":"," ","m","i","s","s","i","n","g"," ","n","a","m","e">>)
  ELSE IF Len(rule.ProfileTypes) = 0
  THEN Errorf(<<"r","u","l","e"," ">> \o rule.ID \o <<":"," ","m","i","s","s","i","n","g"," ","p","r","o","f","i","l","e","_","t","y","p","e","s">>)
  ELSE IF rule.Condition = << >>
  THEN Errorf(<<"r","u","l","e"," ">> \o rule.ID \o <<":"," ","m","i","s","s","i","n","g"," ","c","o","n","d","i","t","i","o","n">>)
  ELSE IF Len(rule.Actions) = 0
  THEN Errorf(<<"r","u","l","e"," ">> \o rule.ID \o <<":"," ","m","i","s","s","i","n","g"," ","a","c","t","i","o","n","s">>)
  ELSE NoError

\* the checks on the rule at index i of config.CrossAnalysisRules
validateCrossRule(i, rule) ==
  IF rule.ID = << >>
  THEN Errorf(<<"c","r","o","s","s","_","a","n","a","l","y","s","i","s","_","r","u","l","e"," ">> \o IntToString(i) \o <<":"," ","m","i","s","s","i","n","g"," ","i","d">>)
  ELSE IF rule.Name = ""
  THEN Errorf(<<"c","r","o","s","s","_","a","n","a","l","y","s","i","s","_","r","u","l","e"," ">> \o rule.ID \o <<":"," ","m","i","s","s","i","n","g"," ","n","a","m","e">>)
  ELSE IF Cardinality(DOMAIN rule.Conditions) < 2
  THEN Errorf(<<"c","r","o","s","s","_","a","n","a","l","y","s","i","s","_","r","u","l","e"," ">> \o rule.ID \o <<":"," ","n","e","e","d"," ","a","t"," ","l","e","a","s","t"," ","2"," ","c","o","n","d","i","t","i","o","n","s"," ","f","o","r"," ","c","r","o","s","s"," ","a","n","a","l","y","s","i","s">>)
  ELSE IF Len(rule.Actions) = 0
  THEN Errorf(<<"c","r","o","s","s","_","a","n","a","l","y","s","i","s","_","r","u","l","e"," ">> \o rule.ID \o <<":"," ","m","i","s","s","i","n","g"," ","a","c","t","i","o","n","s">>)
  ELSE NoError

\* validateRules that looks at the first rule only
validateRules_FirstOnly(ruleList, i) ==
  IF i >= Len(ruleList) THEN NoError ELSE validateRule(i, ruleList[i + 1])

\* the first loop of NewEngine from index i on: the error of the first rule
\* that fails a check
RECURSIVE validateRules(_, _)
validateRules(ruleList, i) ==
  IF i >= Len(ruleList) THEN NoError
  ELSE IF validateRule(i, ruleList[i + 1]) # NoError
  THEN validateRule(i, ruleList[i + 1])
  ELSE validateRules(ruleList, i + 1)

RECURSIVE validateCrossRules(_, _)
validateCrossRules(ruleList, i) ==
  IF i >= Len(ruleList) THEN NoError
  ELSE IF validateCrossRule(i, ruleList[i + 1]) # NoError
  THEN validateCrossRule(i, ruleList[i + 1])
  ELSE validateCrossRules(ruleList, i + 1)

NewEngine(file) ==
  IF file.path = << >> THEN [engine |-> NilPtr, err |-> NoError]
  ELSE IF file.read = "not_exist"
  THEN [engine |-> NilPtr, err |-> Errorf(<<"r","u","l","e","s"," ","f","i","l","e"," ","n","o","t"," ","f","o","u","n","d",":"," ">> \o file.path)]
  ELSE IF file.read = "malformed"
  THEN [engine |-> NilPtr, err |-> Errorf(<<"f","a","i","l","e","d"," ","t","o"," ","p","a","r","s","e"," ","r","u","l","e","s"," ","f","i","l","e",":"," ">>)]
  ELSE IF validateRules(file.config.Rules, 0) # NoError
  THEN [engine |-> NilPtr, err |-> validateRules(file.config.Rules, 0)]
  ELSE IF validateCrossRules(file.config.CrossAnalysisRules, 0) # NoError
  THEN [engine |-> NilPtr, err |-> validateCrossRules(file.config.CrossAnalysisRules, 0)]
  ELSE [engine |-> Ptr([rules |-> file.config.Rules,
                        crossAnalysisRules |-> file.config.CrossAnalysisRules]),
        err |-> NoError]

\* rules of a document: two complete ones and the ones that leave a field out
DocumentRules ==
  { MemoryGrowthRule, CPUHotspotRule,
    [MemoryGrowthRule EXCEPT !.ID = << >>],
    [MemoryGrowthRule EXCEPT !.Name = ""],
    [MemoryGrowthRule EXCEPT !.ProfileTypes = << >>],
    [MemoryGrowthRule EXCEPT !.Condition = << >>],
    [MemoryGrowthRule EXCEPT !.Actions = << >>],
    [CPUHotspotRule EXCEPT !.Name = "", !.Actions = << >>] }

MaxDocumentRules == 2

DocumentRuleLists == UNION { [1..n -> DocumentRules] : n \in 0..MaxDocumentRules }

CrossWithoutID == [GoroutineMemoryCrossRule EXCEPT !.ID = << >>]

CrossWithoutName == [GoroutineMemoryCrossRule EXCEPT !.Name = ""]

CrossWithOneCondition ==
  [GoroutineMemoryCrossRule EXCEPT !.Conditions = [heap |-> <<"s","l","o","p","e">>]]

CrossWithoutConditions == [GoroutineMemoryCrossRule EXCEPT !.Conditions = NilMap]

CrossWithoutActions == [CPUMemoryCrossRule EXCEPT !.Actions = << >>]

DocumentCrossRuleLists ==
  { << >>,
    << GoroutineMemoryCrossRule >>,
    << CrossWithoutID >>,
    << CrossWithoutName >>,
    << CrossWithOneCondition >>,
    << CrossWithoutConditions >>,
    << CrossWithoutActions >>,
    << CPUMemoryCrossRule, CrossWithoutID >>,
    << CPUMemoryCrossRule, CrossWithOneCondition >>,
    << GoroutineMemoryCrossRule, CrossWithoutActions >> }

RulesPath == <<"r","u","l","e","s",".","y","a","m","l">>

EmptyConfig == [Rules |-> << >>, CrossAnalysisRules |-> << >>]

RulesFiles ==
  { [path |-> << >>, read |-> "none", config |-> EmptyConfig],
    [path |-> RulesPath, read |-> "not_exist", config |-> EmptyConfig],
    [path |-> RulesPath, read |-> "malformed", config |-> EmptyConfig] }
  \cup { [path |-> RulesPath, read |-> "document",
          config |-> [Rules |-> ruleList, CrossAnalysisRules |-> crossList]] :
           ruleList \in DocumentRuleLists, crossList \in DocumentCrossRuleLists }

InitLoad ==
  /\ pc = "load"
  /\ rulesFile \in RulesFiles
  /\ loadResult = Nil
  /\ EvaluateIdle
  /\ ClassifierIdle /\ InsightsIdle /\ DetectIdle /\ GroupingIdle /\ CommandsIdle
  /\ LocatorIdle

DoNewEngine ==
  /\ pc = "load"
  /\ loadResult' = NewEngine(rulesFile)
  /\ pc' = "loaded"
  /\ UNCHANGED <<rulesFile, engine, evalGroups, evalTrends, collected, findings, contexts>>
  /\ UNCHANGED <<classifierVars, insightVars, detectVars, groupingVars, commandVars,
                 locatorVars>>

NextLoad == DoNewEngine

SpecLoad == InitLoad /\ [][NextLoad]_vars

\* what the message says of each required field a single-type rule lacks
MissingOfRule(rule) ==
  { phrase \in { <<":"," ","m","i","s","s","i","n","g"," ","i","d">>, <<":"," ","m","i","s","s","i","n","g"," ","n","a","m","e">>, <<":"," ","m","i","s","s","i","n","g"," ","p","r","o","f","i","l","e","_","t","y","p","e","s">>, <<":"," ","m","i","s","s","i","n","g"," ","c","o","n","d","i","t","i","o","n">>, <<":"," ","m","i","s","s","i","n","g"," ","a","c","t","i","o","n","s">> } :
      \/ phrase = <<":"," ","m","i","s","s","i","n","g"," ","i","d">> /\ rule.ID = << >>
      \/ phrase = <<":"," ","m","i","s","s","i","n","g"," ","n","a","m","e">> /\ rule.Name = ""
      \/ phrase = <<":"," ","m","i","s","s","i","n","g"," ","p","r","o","f","i","l","e","_","t","y","p","e","s">> /\ Len(rule.ProfileTypes) = 0
      \/ phrase = <<":"," ","m","i","s","s","i","n","g"," ","c","o","n","d","i","t","i","o","n">> /\ rule.Condition = << >>
      \/ phrase = <<":"," ","m","i","s","s","i","n","g"," ","a","c","t","i","o","n","s">> /\ Len(rule.Actions) = 0 }

\* the same for a cross-analysis rule
MissingOfCrossRule(rule) ==
  { phrase \in { <<":"," ","m","i","s","s","i","n","g"," ","i","d">>, <<":"," ","m","i","s","s","i","n","g"," ","n","a","m","e">>, <<":"," ","n","e","e","d"," ","a","t"," ","l","e","a","s","t"," ","2"," ","c","o","n","d","i","t","i","o","n","s"," ","f","o","r"," ","c","r","o","s","s"," ","a","n","a","l","y","s","i","s">>, <<":"," ","m","i","s","s","i","n","g"," ","a","c","t","i","o","n","s">> } :
      \/ phrase = <<":"," ","m","i","s","s","i","n","g"," ","i","d">> /\ rule.ID = << >>
      \/ phrase = <<":"," ","m","i","s","s","i","n","g"," ","n","a","m","e">> /\ rule.Name = ""
      \/ phrase = <<":"," ","n","e","e","d"," ","a","t"," ","l","e","a","s","t"," ","2"," ","c","o","n","d","i","t","i","o","n","s"," ","f","o","r"," ","c","r","o","s","s"," ","a","n","a","l","y","s","i","s">> /\ Cardinality(DOMAIN rule.Conditions) < 2
      \/ phrase = <<":"," ","m","i","s","s","i","n","g"," ","a","c","t","i","o","n","s">> /\ Len(rule.Actions) = 0 }

MissingOfDocument(config) ==
  UNION ({ MissingOfRule(config.Rules[i]) : i \in 1..Len(config.Rules) }
         \cup { MissingOfCrossRule(config.CrossAnalysisRules[i]) :
                  i \in 1..Len(config.CrossAnalysisRules) })

HasSuffix(s, suffix) ==
  Len(s) >= Len(suffix) /\ SubSeq(s, Len(s) - Len(suffix) + 1, Len(s)) = suffix

\* C19: NewEngine rejects the whole rules document, returning a nil engine
\* and an error whose message names a field that is missing, whenever a
\* single-type rule lacks id, name, profile_types, condition or actions, or
\* a cross-analysis rule lacks id, name or actions or has fewer than 2
\* conditions, however many of the other rules are complete.
C19_DefectiveDocumentRejected ==
  (pc = "loaded" /\ rulesFile.read = "document"
     /\ MissingOfDocument(rulesFile.config) # {})
  => /\ loadResult.engine = NilPtr
     /\ loadResult.err # NoError
     /\ \E phrase \in MissingOfDocument(rulesFile.config) :
          HasSuffix(Deref(loadResult.err), phrase)

\* a document of a complete rule followed by a rule without condition, and
\* a complete cross-analysis rule, was rejected
C19_Witness ==
  /\ pc = "loaded"
  /\ rulesFile.read = "document"
  /\ Len(rulesFile.config.Rules) = 2
  /\ MissingOfRule(rulesFile.config.Rules[1]) = {}
  /\ MissingOfRule(rulesFile.config.Rules[2]) = { <<":"," ","m","i","s","s","i","n","g"," ","c","o","n","d","i","t","i","o","n">> }
  /\ rulesFile.config.CrossAnalysisRules = << GoroutineMemoryCrossRule >>
  /\ loadResult.engine = NilPtr
  /\ HasSuffix(Deref(loadResult.err), <<":"," ","m","i","s","s","i","n","g"," ","c","o","n","d","i","t","i","o","n">>)

\* a document rejected for its cross-analysis rules alone
C19_CrossRuleRejected ==
  /\ pc = "loaded"
  /\ rulesFile.read = "document"
  /\ \A i \in 1..Len(rulesFile.config.Rules) : MissingOfRule(rulesFile.config.Rules[i]) = {}
  /\ Len(rulesFile.config.CrossAnalysisRules) = 2
  /\ loadResult.engine = NilPtr
  /\ HasSuffix(Deref(loadResult.err), <<":"," ","n","e","e","d"," ","a","t"," ","l","e","a","s","t"," ","2"," ","c","o","n","d","i","t","i","o","n","s"," ","f","o","r"," ","c","r","o","s","s"," ","a","n","a","l","y","s","i","s">>)

\* a complete document gives an engine
C19_CompleteDocumentLoaded ==
  /\ pc = "loaded"
  /\ rulesFile.read = "document"
  /\ Len(rulesFile.config.Rules) = 2
  /\ loadResult.engine # NilPtr
  /\ loadResult.err = NoError

SameRuleAndTitle(f1, f2) == f1.RuleID = f2.RuleID /\ f1.Title = f2.Title

\* C20: the list Evaluate returns never holds two findings with the same
\* RuleID and the same Title, be they single-type findings, cross-analysis
\* findings or one of each.
C20_NoTwoFindingsWithSameRuleAndTitle ==
  pc = "evaluated"
  => \A i \in 1..Len(findings) : \A j \in (i + 1)..Len(findings) :
       ~SameRuleAndTitle(findings[i], findings[j])

\* Evaluate collected a cross-analysis finding and a single-type finding
\* with the same RuleID and Title, and returned one of them
C20_Witness ==
  /\ pc = "evaluated"
  /\ \E i \in 1..Len(collected) : \E j \in 1..Len(collected) :
       /\ collected[i].IsCrossAnalysis
       /\ ~collected[j].IsCrossAnalysis
       /\ SameRuleAndTitle(collected[i], collected[j])
  /\ Len(findings) = 1

\* Evaluate collected two single-type findings with the same RuleID and
\* Title, none of them with a title keyword, and returned one of them
C20_TwoSinglesReached ==
  /\ pc = "evaluated"
  /\ Len(collected) = 2
  /\ ~collected[1].IsCrossAnalysis
  /\ ~collected[2].IsCrossAnalysis
  /\ SameRuleAndTitle(collected[1], collected[2])
  /\ extractTitleKeyword(collected[1].Title) = { "" }
  /\ Len(findings) = 1

(***************************************************************************)
(* Runs of LinearRegression: the series is a line a*i + b over i = 0..n-1, *)
(* or such a line with one of its points raised by one.                    *)
(***************************************************************************)
MaxPoints == 4

MaxCoefficient == 3

Coefficients == (-MaxCoefficient)..MaxCoefficient

LineSeries(a, b, n) == [i \in 1..n |-> a * (i - 1) + b]

RaisedAt(series, k) == [i \in 1..Len(series) |-> IF i = k THEN series[i] + 1 ELSE series[i]]

InitRegression ==
  /\ pc = "regression"
  /\ \E a \in Coefficients, b \in Coefficients, n \in 0..MaxPoints :
       \E k \in 0..n : trendValues = RaisedAt(LineSeries(a, b, n), k)
  /\ trendResult = Nil
  /\ metrics = Nil /\ insights = Nil
  /\ ClassifierIdle /\ DetectIdle /\ GroupingIdle /\ CommandsIdle
  /\ LocatorIdle /\ EngineIdle

DoLinearRegression ==
  /\ pc = "regression"
  /\ trendResult' = LinearRegression(trendValues)
  /\ pc' = "regressed"
  /\ UNCHANGED <<metrics, insights, trendValues>>
  /\ UNCHANGED <<classifierVars, detectVars, groupingVars, commandVars, locatorVars,
                 engineVars>>

NextRegression == DoLinearRegression

SpecRegression == InitRegression /\ [][NextRegression]_vars

\* C21: for a series a*i + b over i = 0..n-1 with integers a, b and n >= 2,
\* LinearRegression returns the slope a and R2 = 1 in exact arithmetic; a
\* constant series gives slope 0 and R2 = 1; fewer than 2 points give (0, 0).
C21_LineGivesSlopeAndUnitR2 ==
  pc = "regressed"
  => /\ Len(trendValues) < 2 => trendResult = [slope |-> Float(0), r2 |-> Float(0)]
     /\ \A a \in Coefficients, b \in Coefficients :
          (Len(trendValues) >= 2 /\ trendValues = LineSeries(a, b, Len(trendValues)))
            => trendResult = [slope |-> Float(a), r2 |-> Float(1)]

\* the regression of a falling line of four points
C21_Witness ==
  /\ pc = "regressed"
  /\ trendValues = LineSeries(-2, 3, 4)
  /\ trendResult = [slope |-> Float(-2), r2 |-> Float(1)]

\* the regression of a constant series
C21_ConstantReached ==
  /\ pc = "regressed"
  /\ trendValues = << 2, 2, 2 >>
  /\ trendResult = [slope |-> Float(0), r2 |-> Float(1)]

\* a series that is no line has R2 below 1
C21_OffLineReached ==
  /\ pc = "regressed"
  /\ trendValues = << 0, 1, 0 >>
  /\ RatLess(trendResult.r2, Float(1))

\* the trend of the metric a condition refers to, for a rule on one metric
ReferredTrend(condition, group) ==
  IF HeapOnlyCondition(condition) THEN Deref(TrendsOf(group)).HeapInuse
  ELSE Deref(TrendsOf(group)).GoroutineCount

AsksDecreasing(condition) ==
  \/ Mentions(condition, Decreasing)
  \/ Mentions(condition, <<"s","l","o","p","e"," ","<"," ","0">>)

AsksIncreasing(condition) == Mentions(condition, Increasing)

\* the single-type rule, on one metric, matched on the group
MatchedOn(rule, group) ==
  /\ HeapOnlyCondition(rule.Condition) \/ GoroutineOnlyCondition(rule.Condition)
  /\ matchesProfileType(rule, group.Type)
  /\ group.Type = (IF HeapOnlyCondition(rule.Condition) THEN "heap" ELSE "goroutine")
  /\ YieldsFindings(rule)

\* C22: in single-type evaluation a rule whose condition holds `decreasing`
\* or `slope < 0` on a trend metric matches only if the direction of that
\* trend is decreasing and its slope negative; a condition that holds
\* `increasing` matches only if the direction is increasing.
C22_DirectionPredicatesRespected ==
  pc = "evaluated"
  => \A r \in 1..Len(engine.rules) : \A g \in 1..Len(evalGroups) :
       MatchedOn(engine.rules[r], evalGroups[g])
       => /\ AsksDecreasing(engine.rules[r].Condition)
               => /\ TrendsOf(evalGroups[g]) # NilPtr
                  /\ ReferredTrend(engine.rules[r].Condition, evalGroups[g]) # NilPtr
                  /\ Deref(ReferredTrend(engine.rules[r].Condition,
                                         evalGroups[g])).Direction = Decreasing
                  /\ RatLess(Deref(ReferredTrend(engine.rules[r].Condition,
                                                 evalGroups[g])).Slope, Float(0))
          /\ AsksIncreasing(engine.rules[r].Condition)
               => /\ TrendsOf(evalGroups[g]) # NilPtr
                  /\ ReferredTrend(engine.rules[r].Condition, evalGroups[g]) # NilPtr
                  /\ Deref(ReferredTrend(engine.rules[r].Condition,
                                         evalGroups[g])).Direction = Increasing

\* a rule asking for a decreasing heap is evaluated on a heap that falls by
\* 100 MB a sample, and yields nothing
C22_FallingHeapUnmatched ==
  /\ pc = "evaluated"
  /\ evalGroups = << GoroutineGroup10To30, HeapGroupFalling >>
  /\ engine.rules = << HeapShrinkRule >>
  /\ Deref(Deref(TrendsOf(evalGroups[2])).HeapInuse).Direction = Decreasing
  /\ collected = << >>

\* the cross-analysis rule has, for the profile type, a group of at least 3
\* files and an entry in the trends map, and its condition for the type holds
TypeQualifies(rule, profType) ==
  /\ \E g \in 1..Len(evalGroups) :
       evalGroups[g].Type = profType /\ Len(evalGroups[g].Files) >= 3
  /\ profType \in DOMAIN evalTrends
  /\ evaluateCrossCondition(rule.Conditions[profType], profType,
                            GroupOfType(evalGroups, profType), evalTrends[profType]).met

MatchedTrendsOf(rule) ==
  [t \in DOMAIN rule.Conditions |->
     Deref(evaluateCrossCondition(rule.Conditions[t], t, GroupOfType(evalGroups, t),
                                  evalTrends[t]).matched)]

CrossRuleQualifies(rule) ==
  /\ \A t \in DOMAIN rule.Conditions : TypeQualifies(rule, t)
  /\ rule.Correlation # "" => checkCorrelation(rule.Correlation, MatchedTrendsOf(rule))

CrossFindingsOf(rule) ==
  SelectSeq(findings, LAMBDA f : f.IsCrossAnalysis /\ f.RuleID = rule.ID)

CrossFindingsTitled(rule, title) ==
  SelectSeq(findings, LAMBDA f : f.IsCrossAnalysis /\ f.RuleID = rule.ID /\ f.Title = title)

\* every returned cross-analysis finding comes from a rule that qualifies, and
\* the findings of the single-type rules are not cross-analysis findings
OnlyQualifiedCrossFindings ==
  /\ \A i \in 1..Len(findings) :
       findings[i].IsCrossAnalysis
       => \E r \in 1..Len(engine.crossAnalysisRules) :
            /\ engine.crossAnalysisRules[r].ID = findings[i].RuleID
            /\ CrossRuleQualifies(engine.crossAnalysisRules[r])
  /\ \A i \in 1..Len(singleTypeFindings(engine, evalGroups, evalTrends)) :
       ~collected[i].IsCrossAnalysis

\* C23 (as stated): Evaluate returns a cross-analysis finding only for a
\* cross-analysis rule whose every profile type has a group of at least 3
\* files and an entry in the trends map, whose every condition holds and
\* whose correlation is satisfied; it returns exactly one such finding for
\* each action of the rule; single-type findings have IsCrossAnalysis false.
C23_OneCrossFindingPerAction ==
  pc = "evaluated"
  => /\ OnlyQualifiedCrossFindings
     /\ \A r \in 1..Len(engine.crossAnalysisRules) :
          CrossRuleQualifies(engine.crossAnalysisRules[r])
          => Len(CrossFindingsOf(engine.crossAnalysisRules[r]))
               = Len(engine.crossAnalysisRules[r].Actions)

\* C23 (amended): as above, with exactly one cross-analysis finding for each
\* title among the actions of the rule: of several actions with one title
\* the first gives the finding.
C23_OneCrossFindingPerTitle ==
  pc = "evaluated"
  => /\ OnlyQualifiedCrossFindings
     /\ \A r \in 1..Len(engine.crossAnalysisRules) :
          CrossRuleQualifies(engine.crossAnalysisRules[r])
          => \A a \in 1..Len(engine.crossAnalysisRules[r].Actions) :
               Len(CrossFindingsTitled(engine.crossAnalysisRules[r],
                                       engine.crossAnalysisRules[r].Actions[a].Title)) = 1

\* the rule with three actions qualified and gave two findings, next to the
\* finding of a single-type rule
C23_Witness ==
  /\ pc = "evaluated"
  /\ engine.crossAnalysisRules = << TrendPairCrossRule >>
  /\ CrossRuleQualifies(TrendPairCrossRule)
  /\ Len(CrossFindingsOf(TrendPairCrossRule)) = 2
  /\ \E i \in 1..Len(findings) : ~findings[i].IsCrossAnalysis

\* every condition of the rule held and its correlation did not: the heap
\* falls while the goroutines grow
C23_CorrelationUnmetReached ==
  /\ pc = "evaluated"
  /\ engine.crossAnalysisRules = << TrendPairCrossRule >>
  /\ \A t \in DOMAIN TrendPairCrossRule.Conditions : TypeQualifies(TrendPairCrossRule, t)
  /\ ~CrossRuleQualifies(TrendPairCrossRule)
  /\ CrossFindingsOf(TrendPairCrossRule) = << >>

FocusFlag == GoToolPprof \o <<" ","-","f","o","c","u","s","=">>

IsFocusCommand(cmd) == HasPrefix(cmd.Command, FocusFlag)

\* the function short name a -focus= command targets: what stands between
\* the flag and the blank before the profile path
FocusTarget(cmd) ==
  SubSeq(StringFrom(cmd.Command, Len(FocusFlag)), 1,
         StringsIndex(StringFrom(cmd.Command, Len(FocusFlag)), <<" ">>))

\* C24: the list GenerateCommandsWithContext returns never holds two
\* -focus= commands on the same function short name, whatever the profile
\* type and the hot paths (goroutine profiles whose root cause is a
\* blocking method such as (*T).Wait included).
C24_NoTwoFocusCommandsOnOneName ==
  (pc = "commands_done" /\ cmdEntry = "GenerateCommandsWithContext")
  => \A i \in 1..Len(commands) : \A j \in (i + 1)..Len(commands) :
       (IsFocusCommand(commands[i]) /\ IsFocusCommand(commands[j]))
       => FocusTarget(commands[i]) # FocusTarget(commands[j])

\* C25: whatever LocatorConfig NewPathAnalyzer was given, the analyzer's
\* MaxCallStackDepth lies in 1..100 and its MaxHotPaths in 1..50 (10 and 5
\* when unset), so that no analysis returns more than 50 hot paths or a
\* chain of more than 100 frames.
C25_ConfigWithinLimits ==
  pc \in { "locator", "locator_done" }
  => /\ analyzer.config.MaxCallStackDepth \in 1..StackDepthLimit
     /\ analyzer.config.MaxHotPaths \in 1..HotPathsLimit
     /\ hotPaths # Nil
          => /\ Len(hotPaths) <= HotPathsLimit
             /\ \A i \in 1..Len(hotPaths) :
                  Len(hotPaths[i].Chain.Frames) <= StackDepthLimit

\* the lower half of C25: values that are unset or negative become the
\* defaults, so both limits are at least 1
C25_DefaultsWhenUnset ==
  pc \in { "locator", "locator_done" }
  => /\ analyzer.config.MaxCallStackDepth >= 1
     /\ analyzer.config.MaxHotPaths >= 1

\* the collected finding is among the returned ones
Survives(finding) == \E k \in 1..Len(findings) : findings[k] = finding

\* a collected cross-analysis finding whose title carries a keyword of the
\* title of the finding
CrossCarriesKeyword(finding) ==
  \E c \in 1..Len(collected) :
    /\ collected[c].IsCrossAnalysis
    /\ extractAllTitleKeywords(collected[c].Title)
         \cap extractAllTitleKeywords(finding.Title) # {}

\* a finding that deduplicateFindings meets before the single-type finding
\* collected[i] and that has its RuleID and Title
EarlierSameRuleAndTitle(i) ==
  \E j \in 1..Len(collected) :
    /\ j # i
    /\ collected[j].IsCrossAnalysis \/ j < i
    /\ SameRuleAndTitle(collected[j], collected[i])

\* C26: deduplication removes a single-type finding only if a cross-analysis
\* finding carries its title keyword or an earlier finding has its RuleID
\* and Title; without cross-analysis findings, single-type findings of
\* different rules or titles whose titles carry one keyword all survive.
C26_SinglesRemovedOnlyByCrossOrSameKey ==
  pc = "evaluated"
  => \A i \in 1..Len(collected) :
       (~collected[i].IsCrossAnalysis /\ ~Survives(collected[i]))
       => CrossCarriesKeyword(collected[i]) \/ EarlierSameRuleAndTitle(i)

\* the column AnalyzeHotPaths sums to the profile total
TotalColumn == ChooseValueIndex(profiles[1], hotPathType).valueIndex

ProfileTotal == sumColumn(profiles[1].Sample, TotalColumn)

SampleFrames(sample) == chainFrames(analyzer.classifier, sample.Location, Len(sample.Location))

SampleKey(sample) == generateSmartCallChainKey(SampleFrames(sample))

\* the samples of the profile that give a chain with the key
SamplesOfKey(key) ==
  SelectSeq(profiles[1].Sample,
            LAMBDA sample : Len(SampleFrames(sample)) > 0 /\ SampleKey(sample) = key)

RECURSIVE SumOfPercents(_)
SumOfPercents(hps) ==
  IF Len(hps) = 0 THEN [num |-> 0, den |-> 1]
  ELSE AddPercent(hps[1].Chain.TotalPct, SumOfPercents(Tail(hps)))

SamePercent(p, q) == p.num * q.den = q.num * p.den

\* the state after AnalyzeHotPaths on one profile
AnalyzedOneProfile ==
  /\ pc = "locator_done"
  /\ Len(profiles) = 1
  /\ hotPaths \in AnalyzeHotPaths(analyzer, profiles[1], hotPathType)

\* C27: AnalyzeHotPaths reads the value of every chain from the column it
\* sums to the profile total, wherever the cpu/nanoseconds column stands:
\* the TotalValue of a hot path is the sum of that column over the samples
\* aggregated into it, its TotalPct is TotalValue / total x 100, and the
\* TotalPct of all hot paths together is at most 100.
C27_ValuesFromTotalColumn ==
  AnalyzedOneProfile
  => /\ \A h \in 1..Len(hotPaths) :
          /\ \E i \in 1..Len(profiles[1].Sample) :
               /\ Len(SampleFrames(profiles[1].Sample[i])) > 0
               /\ hotPaths[h].Chain.TotalValue
                    = sumColumn(SamplesOfKey(SampleKey(profiles[1].Sample[i])), TotalColumn)
          /\ SamePercent(hotPaths[h].Chain.TotalPct,
                         Percent(hotPaths[h].Chain.TotalValue, ProfileTotal))
     /\ SumOfPercents(hotPaths).num <= 100 * SumOfPercents(hotPaths).den

\* the part of C27 that holds when the cpu/nanoseconds column is the second
\* one, or when there is none
C27_SecondColumnOrNone ==
  (AnalyzedOneProfile /\ (TotalColumn = 1 \/ ~ChooseValueIndex(profiles[1], hotPathType).useCumValue))
  => /\ \A h \in 1..Len(hotPaths) :
          /\ \E i \in 1..Len(profiles[1].Sample) :
               /\ Len(SampleFrames(profiles[1].Sample[i])) > 0
               /\ hotPaths[h].Chain.TotalValue
                    = sumColumn(SamplesOfKey(SampleKey(profiles[1].Sample[i])), TotalColumn)
          /\ SamePercent(hotPaths[h].Chain.TotalPct,
                         Percent(hotPaths[h].Chain.TotalValue, ProfileTotal))
     /\ SumOfPercents(hotPaths).num <= 100 * SumOfPercents(hotPaths).den


\* the chains AggregateCallChains holds for the one profile analysed, one for
\* each key, with all their frames
RepresentativeChains ==
  LET entries == aggregateInOrder(
                   extractChains(analyzer, profiles[1].Sample,
                                 ChooseValueIndex(profiles[1], hotPathType), ProfileTotal),
                   1, << >>)
  IN  { entries[k].chain : k \in 1..Len(entries) }

DeepestBusinessFrame(chain) ==
  FindBusinessFrames(chain.Frames)[Len(FindBusinessFrames(chain.Frames))]

\* C28: truncation to MaxCallStackDepth never discards the root cause: when
\* the representative chain of a returned hot path has a business frame
\* before truncation (its key begins "business:"), the RootCauseIndex of the
\* hot path is >= 0 and is the index of that chain's deepest business frame.
C28_RootCauseSurvivesTruncation ==
  AnalyzedOneProfile
  => \A h \in 1..Len(hotPaths) :
       \E rep \in RepresentativeChains :
         /\ toHotPath(analyzer, rep, hotPathType) = hotPaths[h]
         /\ HasPrefix(generateSmartCallChainKey(rep.Frames),
                      <<"b","u","s","i","n","e","s","s",":">>)
              => /\ hotPaths[h].RootCauseIndex >= 0
                 /\ hotPaths[h].RootCauseIndex = DeepestBusinessFrame(rep)

\* the same for the hot paths whose representative chain has its deepest
\* business frame within the first MaxCallStackDepth frames
C28_RootCauseKeptWithinDepth ==
  AnalyzedOneProfile
  => \A h \in 1..Len(hotPaths) :
       \E rep \in RepresentativeChains :
         /\ toHotPath(analyzer, rep, hotPathType) = hotPaths[h]
         /\ (/\ HasPrefix(generateSmartCallChainKey(rep.Frames),
                          <<"b","u","s","i","n","e","s","s",":">>)
             /\ DeepestBusinessFrame(rep) < analyzer.config.MaxCallStackDepth)
              => hotPaths[h].RootCauseIndex = DeepestBusinessFrame(rep)

\* a chain with a business frame was cut and its hot path has no root cause
C28_RootCauseLostReached ==
  /\ AnalyzedOneProfile
  /\ \E h \in 1..Len(hotPaths) :
       /\ hotPaths[h].RootCauseIndex = -1
       /\ \E rep \in RepresentativeChains :
            /\ toHotPath(analyzer, rep, hotPathType) = hotPaths[h]
            /\ Len(FindBusinessFrames(rep.Frames)) > 0


\* the function names of the business frames of a chain, in order
BusinessNames(chain) ==
  LET businessFrames == SelectSeq(chain.Frames, LAMBDA f : f.Category = CategoryBusiness)
  IN  [i \in 1..Len(businessFrames) |-> businessFrames[i].FunctionName]

\* the first min(5, n) function names of a chain of n frames
LeadingNames(chain) ==
  [i \in 1..(IF Len(chain.Frames) < MaxKeyFrames THEN Len(chain.Frames) ELSE MaxKeyFrames)
     |-> chain.Frames[i].FunctionName]

\* two chains with business frames and the same business names, or two
\* chains without business frames and the same leading names
SameNameLists(c, d) ==
  IF Len(BusinessNames(c)) > 0 /\ Len(BusinessNames(d)) > 0
  THEN BusinessNames(c) = BusinessNames(d)
  ELSE IF Len(BusinessNames(c)) = 0 /\ Len(BusinessNames(d)) = 0
  THEN LeadingNames(c) = LeadingNames(d)
  ELSE FALSE

RECURSIVE ClassTotalValue(_, _, _)
ClassTotalValue(chains, ref, i) ==
  IF i > Len(chains) THEN 0
  ELSE (IF SameNameLists(ref, chains[i]) THEN chains[i].TotalValue ELSE 0)
         + ClassTotalValue(chains, ref, i + 1)

RECURSIVE ClassSampleCount(_, _, _)
ClassSampleCount(chains, ref, i) ==
  IF i > Len(chains) THEN 0
  ELSE (IF SameNameLists(ref, chains[i]) THEN chains[i].SampleCount ELSE 0)
         + ClassSampleCount(chains, ref, i + 1)

\* the indices of the chains that no earlier chain has the name lists of
FirstOfNameLists(chains) ==
  { i \in 1..Len(chains) : \A j \in 1..(i - 1) : ~SameNameLists(chains[j], chains[i]) }

\* the chains of the samples, as they were handed to AggregateCallChains
ExtractedChains ==
  [i \in 1..Len(extractSamples) |->
     ExtractCallChain(LocatorClassifier, extractSamples[i],
                      extractArgs.valueIndex, extractArgs.totalValue)]

\* the result has one chain for each class of chains with the same name
\* lists: the first chain of the class with the values of the class added up
MergedByNameLists ==
  /\ Len(aggregatedChains) = Cardinality(FirstOfNameLists(callChains))
  /\ \A i \in FirstOfNameLists(callChains) :
       \E k \in 1..Len(aggregatedChains) :
         /\ aggregatedChains[k].Frames = callChains[i].Frames
         /\ aggregatedChains[k].BoundaryPoints = callChains[i].BoundaryPoints
         /\ aggregatedChains[k].CategoryBreakdown = callChains[i].CategoryBreakdown
         /\ aggregatedChains[k].TotalValue = ClassTotalValue(callChains, callChains[i], 1)
         /\ aggregatedChains[k].SampleCount = ClassSampleCount(callChains, callChains[i], 1)
  /\ callChains = ExtractedChains

\* C29: AggregateCallChains merges two chains if and only if they have the
\* same key: chains with a business frame exactly when their lists of
\* business function names are equal, chains without one exactly when their
\* first min(5, n) function names are equal; a merged chain keeps the Frames,
\* BoundaryPoints and CategoryBreakdown of the first chain of its key, and
\* the input chains are left as they were.
C29_MergedExactlyOnEqualNameLists ==
  pc = "chains_done" => MergedByNameLists

NoBarInNames(chains) ==
  \A c \in 1..Len(chains) : \A f \in 1..Len(chains[c].Frames) :
    \A n \in 1..Len(chains[c].Frames[f].FunctionName) :
      chains[c].Frames[f].FunctionName[n] # "|"

\* the same for chains none of whose function names holds a "|"
C29_MergedOnEqualNameListsWithoutBar ==
  (pc = "chains_done" /\ NoBarInNames(callChains)) => MergedByNameLists

\* chains of different business names were merged into one
C29_DifferentNamesMergedReached ==
  /\ pc = "chains_done"
  /\ Len(aggregatedChains) = 1
  /\ \E i, j \in 1..Len(callChains) :
       /\ Len(BusinessNames(callChains[i])) = 2
       /\ Len(BusinessNames(callChains[j])) = 1


\* C30: after the driver has generated the problem contexts, every finding
\* the rule engine returned has its own ProblemContext: the contexts map
\* holds, under the rule id of the finding, a context whose title is the
\* title of the finding, also when one rule emitted several findings.
C30_EveryFindingHasItsContext ==
  pc = "contexts_done"
  => \A i \in 1..Len(findings) :
       /\ findings[i].RuleID \in DOMAIN contexts
       /\ contexts[findings[i].RuleID].Title = findings[i].Title

\* every finding has a context under its rule id, and the title of that
\* context is the title of the last finding of the rule
C30_ContextOfLastFindingOfRule ==
  pc = "contexts_done"
  => /\ DOMAIN contexts = { findings[i].RuleID : i \in 1..Len(findings) }
     /\ \A i \in 1..Len(findings) :
          (\A j \in (i + 1)..Len(findings) : findings[j].RuleID # findings[i].RuleID)
            => contexts[findings[i].RuleID].Title = findings[i].Title

\* one rule emitted two findings with different titles
C30_TwoTitlesOfOneRuleReached ==
  /\ pc = "contexts_done"
  /\ \E i, j \in 1..Len(findings) :
       /\ findings[i].RuleID = findings[j].RuleID
       /\ findings[i].Title # findings[j].Title

====
